---- MODULE Spec2Model ----
(***************************************************************************)
(* Model of the OBPF python client (src/main.py, src/synchronized.py,      *)
(* src/tetrion.py): the main loop (input polling, local and remote         *)
(* simulation stepping, outbound flush), the wire encoding of the outbound *)
(* input message, and the receiver thread that decodes the server's byte   *)
(* stream into the shared message queue.                                   *)
(*                                                                         *)
(* Specifications:                                                         *)
(*   Spec          the session with a server whose Broadcast frames do not *)
(*                 go backwards (reliable, in-order transport)             *)
(*   SpecAnyOrder  the same session, the server may send Broadcast frames  *)
(*                 in any order                                            *)
(*   SpecLocal     a session with played keys and a finer clock (local     *)
(*                 stepping, outbound flush, wire encoding)                *)
(*   SpecKeys      a short session in which every mapped key is pressed    *)
(*                 and released                                            *)
(*   SpecStream    the receiver on a byte stream that recv() returns in    *)
(*                 pieces, frame after frame                               *)
(*   SpecStreamFair  SpecStream in which the bytes on the wire are         *)
(*                 eventually read                                         *)
(*   SpecBurst     both threads, the server writes frames back to back     *)
(*   SpecPeer      both threads, the peer closes or resets the connection  *)
(*   SpecLoopback  the bytes written by send_event_buffer are fed back to  *)
(*                 keep_receiving (codec round trip)                       *)
(*   SpecEmit      the local session with the emitted and the sent events  *)
(*                 remembered                                              *)
(*   SpecTick      the catch-up loop of the frame counter, frame by frame  *)
(*   SpecFraming   the receiver on frames whose header announces more bytes*)
(*                 than the message takes                                  *)
(*   SpecLock      both threads, every acquire, access and release of the  *)
(*                 running flag as a step                                  *)
(*   SpecLockFair  SpecLock under fair scheduling of the two threads       *)
(*   SpecPeerFair  SpecPeer with a main thread that keeps taking steps     *)
(*   SpecSend      the local session with floods of input events between   *)
(*                 two flushes                                             *)
(*   SpecHandle    a session that ends, and the __exit__ and __del__ calls *)
(*                 on the two Tetrion objects                              *)
(***************************************************************************)
EXTENDS Integers, Sequences, FiniteSets, TLC

VARIABLES
    MODE,               \* main.py:36    Mode.ONE_PLAYER / Mode.TWO_PLAYERS (fixed per build)
    running,            \* main.py:338   Synchronized(True)._value
    message_queue,      \* main.py:221   shared list of decoded messages
    main_pc,            \* position of the main thread in main()
    client_id,          \* main.py:349
    seed,               \* main.py:350
    tetrion,            \* main.py:352   local simulation handle
    other_tetrion,      \* main.py:352   remote simulation handle
    simulation_step,    \* main.py:357
    event_buffer,       \* main.py:361
    other_client_frame, \* main.py:363   None or the frame of the last Broadcast
    elapsed,            \* main.py:472   monotonic clock reading, in clock ticks
    new_frame,          \* main.py:473
    socket_out,         \* the send_event_buffer calls of the last tick: arguments and bytes sent
    sent_frames,        \* frame argument of every send_event_buffer call, in order
    polled,             \* input events the last pygame.event.get() returned
    last_target,        \* argument of the last other_tetrion.simulate_up_until
    recv_pc,            \* position of the receiver thread in keep_receiving()
    buffer,             \* main.py:225
    current_header,     \* main.py:226
    server_sends,       \* number of messages the server has written
    server_frame,       \* frame of the last Broadcast the server has written
    inputs_used,        \* number of input events pygame has delivered so far
    in_order,           \* no consumed Broadcast had a smaller frame than the one before it
    echo,               \* SpecLoopback: the outbound message that was fed back to the receiver
    wire,               \* bytes the server has written and recv() has not returned yet
    peer,               \* state of the connection as recv() sees it
    written,            \* the frames the server has written, in order
    idle,               \* iterations of the receiver that ended at a continue
    splits,             \* reads that returned only a part of the bytes on the wire
    eof_reads,          \* reads that returned zero bytes
    appended,           \* every message the receiver has appended to message_queue, in order
    consumed,           \* every message the main thread has popped from message_queue, in order
    locked,             \* synchronized.py:32  running._lock is held
    handled,            \* main.py:371   events of the polled list the for loop has gone through
    tick_start,         \* simulation_step when the clock was read last (main.py:472)
    late_polls,         \* select calls of the receiver that returned after the flag was cleared
    emitted,            \* every event enqueued into the local handle, in order
    sent_events,        \* the event list of every send_event_buffer call, in order
    handles,            \* tetrion.py:608  Tetrion._tetrion of tetrion and of other_tetrion,
                        \*                 and the obpf_destroy_tetrion calls on each
    life_calls          \* __exit__ and __del__ calls on each of the two objects

vars == <<MODE, running, message_queue, main_pc, client_id, seed, tetrion,
          other_tetrion, simulation_step, event_buffer, other_client_frame,
          elapsed, new_frame, socket_out, sent_frames, polled, last_target,
          recv_pc, buffer, current_header, server_sends,
          server_frame, inputs_used, in_order, echo, wire, peer, written, idle,
          splits, eof_reads, appended, consumed, locked, handled, tick_start,
          late_polls, emitted, sent_events, handles, life_calls>>

main_vars == <<main_pc, client_id, seed, tetrion, other_tetrion, simulation_step,
               event_buffer, other_client_frame, elapsed, new_frame, socket_out,
               sent_frames, polled, last_target, inputs_used, in_order>>

recv_vars == <<recv_pc, buffer, current_header>>

stream_vars == <<wire, peer, written, idle, splits, eof_reads>>

server_vars == <<server_sends, server_frame, echo, wire, peer, written, idle, splits,
                 eof_reads>>

\* histories of the queue, kept by the specifications that split the main
\* thread's test and pop into two steps
queue_vars == <<appended, consumed>>

\* state of the specifications that follow the threads statement by statement
fine_vars == <<locked, handled, tick_start, late_polls>>

\* histories of the events this client emits and sends
log_vars == <<emitted, sent_events>>

\* the native handles behind the two Tetrion objects
life_vars == <<handles, life_calls>>

NoFrame == 0 - 1         \* Optional[int] None (main.py:363)

----------------------------------------------------------------------------
(* Bounds of the model                                                     *)

MaxFrame == 101          \* the wall clock is read up to this frame
FineTicks == 2           \* SpecLocal: until this reading every small clock step is explored
MaxTickJump == 3         \* the small clock steps between two readings, in ticks
MidTickJump == 50        \* a stall of more than one flush period, in ticks
BigTickJump == 101       \* a stall of more than three flush periods, in ticks
MaxPoll == 2             \* input events one pygame.event.get() returns
MaxInputs == 1           \* Spec: input events handled in one session
MaxServerSends == 3      \* Spec: messages the server writes in one session
MaxLocalInputs == 2      \* SpecLocal: input events handled in one session
MaxLocalSends == 1       \* SpecLocal: messages the server writes in one session
MaxKeysFrame == 3        \* SpecKeys: the wall clock is read up to this frame
MaxKeysInputs == 2       \* SpecKeys: input events handled in one session
EarlyFrame == 20         \* frame of a Broadcast the server may send
LateFrame == 50          \* frame of a Broadcast the server may send
MaxStreamSends == 3      \* SpecStream, SpecBurst, SpecPeer: frames the server writes
MaxSplits == 1           \* SpecStream: reads that return a part of the bytes on the wire
MaxIdle == 1             \* SpecStream: iterations of the receiver without data
MaxEofReads == 2         \* SpecPeer: reads that return zero bytes
MaxEmitInputs == 3       \* SpecEmit: input events handled in one session
MaxEmitFrame == 32       \* SpecEmit: the wall clock is read up to this frame
EmitStall == 30          \* SpecEmit: a stall of one flush period, in ticks
MaxFlood == 256          \* SpecSend: events one pygame.event.get() returns in a flood
MaxLifeCalls == 3        \* SpecHandle: __exit__ and __del__ calls on one Tetrion object

----------------------------------------------------------------------------
(* Program constants                                                       *)

FIXED_DELAY == 30        \* main.py:453-454
FLUSH_PERIOD == 15       \* main.py:476
FRAME_RATE == 60         \* main.py:473
TICKS_PER_SECOND == 120  \* resolution of the modelled monotonic clock
HEADER_SIZE == 3         \* main.py:249-251
GAME_START_SIZE == 17    \* main.py:256-257
INPUT_TAG == 0           \* main.py:66

Min(a, b) == IF a <= b THEN a ELSE b
Max(a, b) == IF a >= b THEN a ELSE b

----------------------------------------------------------------------------
(* tetrion.py enums                                                        *)

Key == {"LEFT", "RIGHT", "DOWN", "DROP", "ROTATE_CW", "ROTATE_CCW", "HOLD"}

KeyValue(k) ==
    CASE k = "LEFT" -> 0
      [] k = "RIGHT" -> 1
      [] k = "DOWN" -> 2
      [] k = "DROP" -> 3
      [] k = "ROTATE_CW" -> 4
      [] k = "ROTATE_CCW" -> 5
      [] k = "HOLD" -> 6

EventType == {"PRESSED", "RELEASED"}

EventTypeValue(t) == IF t = "PRESSED" THEN 0 ELSE 1

Event(k, t, f) == [key |-> k, type |-> t, frame |-> f]

MessageType == {"HEARTBEAT", "GRID_STATE", "GAME_START", "EVENT_BROADCAST"}

MessageTypeValue(t) ==
    CASE t = "HEARTBEAT" -> 0
      [] t = "GRID_STATE" -> 1
      [] t = "GAME_START" -> 2
      [] t = "EVENT_BROADCAST" -> 3

----------------------------------------------------------------------------
(* struct.pack / struct.unpack, network byte order                         *)

RECURSIVE PackBE(_, _)
PackBE(n, width) ==
    IF width = 0 THEN <<>> ELSE Append(PackBE(n \div 256, width - 1), n % 256)

RECURSIVE UnpackBE_Little(_)
UnpackBE_Little(bytes) ==
    IF bytes = <<>> THEN 0 ELSE UnpackBE_Little(Tail(bytes)) * 256 + Head(bytes)

RECURSIVE UnpackBE(_)
UnpackBE(bytes) ==
    IF bytes = <<>> THEN 0
    ELSE UnpackBE(SubSeq(bytes, 1, Len(bytes) - 1)) * 256 + bytes[Len(bytes)]

\* python slices: s[:n] and s[n:]
Take(s, n) == SubSeq(s, 1, Min(n, Len(s)))
Drop(s, n) == SubSeq(s, Min(n, Len(s)) + 1, Len(s))

\* struct.pack raises struct.error when a value does not fit its format
FitsB(n) == n >= 0 /\ n <= 255
FitsH(n) == n >= 0 /\ n <= 65535

----------------------------------------------------------------------------
(* send_event_buffer, main.py:63-69                                        *)

EncodeEvent(event) ==
    PackBE(KeyValue(event.key), 1) \o PackBE(EventTypeValue(event.type), 1)
        \o PackBE(event.frame, 8)

RECURSIVE EncodeEvents(_)
EncodeEvents(events) ==
    IF events = <<>> THEN <<>>
    ELSE IF Len(events) = 1 THEN EncodeEvent(events[1])
    ELSE LET half == Len(events) \div 2
         IN  EncodeEvents(SubSeq(events, 1, half))
                 \o EncodeEvents(SubSeq(events, half + 1, Len(events)))

PayloadSize_NoCount(events) == 10 * Len(events)

PayloadSize(events) == 9 + 10 * Len(events)

InputTag_Broadcast == MessageTypeValue("EVENT_BROADCAST")

InputTag == INPUT_TAG

\* struct.pack("!BHQB", ...) raises struct.error before anything is sent
SendEventBufferRaises_Never(events) == FALSE

SendEventBufferRaises(events) ==
    ~FitsB(Len(events)) \/ ~FitsH(PayloadSize(events))

SendEventBufferData(events, frame) ==
    PackBE(InputTag, 1) \o PackBE(PayloadSize(events), 2) \o PackBE(frame, 8)
        \o PackBE(Len(events), 1) \o EncodeEvents(events)

----------------------------------------------------------------------------
(* The simulation handle (native library behind tetrion.py:606-645).       *)
(* advanced: simulate_up_until has been called; frame: the greatest frame  *)
(* simulated so far; queue: enqueued events not applied yet; late: an      *)
(* event was enqueued for a frame the handle had already simulated.        *)

CreateTetrion(s) ==
    [seed |-> s, advanced |-> FALSE, frame |-> 0, queue |-> <<>>, late |-> FALSE]

EnqueueEvent(handle, event) ==
    [handle EXCEPT !.queue = Append(@, event),
                   !.late = @ \/ (handle.advanced /\ event.frame <= handle.frame)]

SimulateUpUntil(handle, target) ==
    LET reached == IF handle.advanced THEN Max(handle.frame, target) ELSE target
        IsPending(e) == e.frame > reached
    IN  [handle EXCEPT !.advanced = TRUE,
                       !.frame = reached,
                       !.queue = SelectSeq(@, IsPending)]

\* The Tetrion object around the handle, tetrion.py:606-645.  ref: what
\* self._tetrion holds ("unset" before the object is constructed);
\* destroyed: the obpf_destroy_tetrion calls made on the handle.
Tetrions == {"tetrion", "other_tetrion"}

NoObject == [ref |-> "unset", destroyed |-> 0]

\* tetrion.py:607-608
NewObject == [ref |-> "handle", destroyed |-> 0]

\* a __del__ that leaves the reference in place
TetrionDel_NoClear(self) ==
    IF self.ref # "None"
    THEN [self EXCEPT !.destroyed = @ + 1]
    ELSE self

\* tetrion.py:642-645
TetrionDel(self) ==
    IF self.ref # "None"
    THEN [self EXCEPT !.destroyed = @ + 1, !.ref = "None"]
    ELSE self

\* tetrion.py:638-640: self.__del__(); the value returned says whether an
\* exception passes through, and leaves the object as __del__ left it
TetrionExit(self) == TetrionDel(self)

RECURSIVE EnqueueAll(_, _)
EnqueueAll(handle, events) ==
    IF events = <<>> THEN handle
    ELSE EnqueueAll(EnqueueEvent(handle, Head(events)), Tail(events))

----------------------------------------------------------------------------
(* Decoding in keep_receiving, main.py:249-278                             *)

KeyFromValue(v) == CHOOSE k \in Key : KeyValue(k) = v
EventTypeFromValue(v) == CHOOSE t \in EventType : EventTypeValue(t) = v
MessageTypeFromValue(v) == CHOOSE t \in MessageType : MessageTypeValue(t) = v

IsKeyValue(v) == \E k \in Key : KeyValue(k) = v
IsEventTypeValue(v) == \E t \in EventType : EventTypeValue(t) = v
IsMessageTypeValue(v) == \E t \in MessageType : MessageTypeValue(t) = v

GameStartMessage(c, start, s) ==
    [kind |-> "GameStart", client_id |-> c, start_frame |-> start, random_seed |-> s]

ClientEvents(c, events) == [client_id |-> c, events |-> events]

BroadcastMessage(f, per_client) ==
    [kind |-> "Broadcast", frame |-> f, events_per_client |-> per_client]

NoHeader == <<>>
MessageHeader(t, size) == <<[type_ |-> t, payload_size |-> size]>>

\* main.py:269-272: event_count records of "!BBQ"; a short slice raises
\* struct.error, a value outside the enum raises ValueError
RECURSIVE DecodeEvents(_, _)
DecodeEvents(buf, count) ==
    IF count = 0 THEN [raised |-> FALSE, events |-> <<>>, rest |-> buf]
    ELSE IF Len(buf) < 10 THEN [raised |-> TRUE, events |-> <<>>, rest |-> buf]
    ELSE IF ~IsKeyValue(buf[1]) \/ ~IsEventTypeValue(buf[2])
         THEN [raised |-> TRUE, events |-> <<>>, rest |-> Drop(buf, 10)]
    ELSE LET event == Event(KeyFromValue(buf[1]), EventTypeFromValue(buf[2]),
                            UnpackBE(SubSeq(buf, 3, 10)))
             more == DecodeEvents(Drop(buf, 10), count - 1)
         IN  [raised |-> more.raised,
              events |-> <<event>> \o more.events,
              rest |-> more.rest]

\* main.py:265-273: num_clients entries of "!BB" followed by their events
RECURSIVE DecodeClients(_, _)
DecodeClients(buf, count) ==
    IF count = 0 THEN [raised |-> FALSE, clients |-> <<>>, rest |-> buf]
    ELSE IF Len(buf) < 2 THEN [raised |-> TRUE, clients |-> <<>>, rest |-> buf]
    ELSE LET decoded == DecodeEvents(Drop(buf, 2), buf[2])
         IN  IF decoded.raised
             THEN [raised |-> TRUE, clients |-> <<>>, rest |-> decoded.rest]
             ELSE LET more == DecodeClients(decoded.rest, count - 1)
                  IN  [raised |-> more.raised,
                       clients |-> <<ClientEvents(buf[1], decoded.events)>> \o more.clients,
                       rest |-> more.rest]

\* main.py:254-277: the match on the header's type; messages is the list of
\* values appended to message_queue
Dispatch_Skip(header, buf) ==
    CASE header.type_ = "GAME_START" ->
            IF Len(buf) < GAME_START_SIZE
            THEN [raised |-> TRUE, messages |-> <<>>, rest |-> buf]
            ELSE [raised |-> FALSE,
                  messages |-> <<GameStartMessage(buf[1], UnpackBE(SubSeq(buf, 2, 9)),
                                                  UnpackBE(SubSeq(buf, 10, 17)))>>,
                  rest |-> Drop(buf, GAME_START_SIZE)]
      [] header.type_ = "EVENT_BROADCAST" ->
            IF Len(buf) < 9
            THEN [raised |-> TRUE, messages |-> <<>>, rest |-> buf]
            ELSE LET decoded == DecodeClients(Drop(buf, 9), buf[9])
                 IN  IF decoded.raised
                     THEN [raised |-> TRUE, messages |-> <<>>, rest |-> decoded.rest]
                     ELSE [raised |-> FALSE,
                           messages |-> <<BroadcastMessage(UnpackBE(SubSeq(buf, 1, 8)),
                                                           decoded.clients)>>,
                           rest |-> decoded.rest]
      [] OTHER -> [raised |-> FALSE, messages |-> <<>>,
                   rest |-> Drop(buf, header.payload_size)]

Dispatch(header, buf) ==
    CASE header.type_ = "GAME_START" ->
            IF Len(buf) < GAME_START_SIZE
            THEN [raised |-> TRUE, messages |-> <<>>, rest |-> buf]
            ELSE [raised |-> FALSE,
                  messages |-> <<GameStartMessage(buf[1], UnpackBE(SubSeq(buf, 2, 9)),
                                                  UnpackBE(SubSeq(buf, 10, 17)))>>,
                  rest |-> Drop(buf, GAME_START_SIZE)]
      [] header.type_ = "EVENT_BROADCAST" ->
            IF Len(buf) < 9
            THEN [raised |-> TRUE, messages |-> <<>>, rest |-> buf]
            ELSE LET decoded == DecodeClients(Drop(buf, 9), buf[9])
                 IN  IF decoded.raised
                     THEN [raised |-> TRUE, messages |-> <<>>, rest |-> decoded.rest]
                     ELSE [raised |-> FALSE,
                           messages |-> <<BroadcastMessage(UnpackBE(SubSeq(buf, 1, 8)),
                                                           decoded.clients)>>,
                           rest |-> decoded.rest]
      [] OTHER -> [raised |-> TRUE, messages |-> <<>>, rest |-> buf]

\* main.py:248-278: what one iteration does with the bytes recv() returned
Receive_Restart(buf0, header0, data) ==
    LET buf1 == data
        parse == header0 = NoHeader /\ Len(buf1) >= HEADER_SIZE
        bad_tag == parse /\ ~IsMessageTypeValue(buf1[1])
        buf2 == IF parse THEN Drop(buf1, HEADER_SIZE) ELSE buf1
        header1 == IF parse /\ ~bad_tag
                   THEN MessageHeader(MessageTypeFromValue(buf1[1]),
                                      UnpackBE(SubSeq(buf1, 2, 3)))
                   ELSE header0
        complete == ~bad_tag /\ header1 # NoHeader
                        /\ Len(buf2) >= header1[1].payload_size
        result == Dispatch(header1[1], buf2)
    IN  IF bad_tag
            THEN [raised |-> TRUE, messages |-> <<>>, buffer |-> buf2, header |-> header0]
        ELSE IF ~complete
            THEN [raised |-> FALSE, messages |-> <<>>, buffer |-> buf2, header |-> header1]
        ELSE IF result.raised
            THEN [raised |-> TRUE, messages |-> <<>>, buffer |-> result.rest,
                  header |-> header1]
        ELSE [raised |-> FALSE, messages |-> result.messages, buffer |-> result.rest,
              header |-> NoHeader]

Receive(buf0, header0, data) ==
    LET buf1 == buf0 \o data
        parse == header0 = NoHeader /\ Len(buf1) >= HEADER_SIZE
        bad_tag == parse /\ ~IsMessageTypeValue(buf1[1])
        buf2 == IF parse THEN Drop(buf1, HEADER_SIZE) ELSE buf1
        header1 == IF parse /\ ~bad_tag
                   THEN MessageHeader(MessageTypeFromValue(buf1[1]),
                                      UnpackBE(SubSeq(buf1, 2, 3)))
                   ELSE header0
        complete == ~bad_tag /\ header1 # NoHeader
                        /\ Len(buf2) >= header1[1].payload_size
        result == Dispatch(header1[1], buf2)
    IN  IF bad_tag
            THEN [raised |-> TRUE, messages |-> <<>>, buffer |-> buf2, header |-> header0]
        ELSE IF ~complete
            THEN [raised |-> FALSE, messages |-> <<>>, buffer |-> buf2, header |-> header1]
        ELSE IF result.raised
            THEN [raised |-> TRUE, messages |-> <<>>, buffer |-> result.rest,
                  header |-> header1]
        ELSE [raised |-> FALSE, messages |-> result.messages, buffer |-> result.rest,
              header |-> NoHeader]

----------------------------------------------------------------------------
(* Input handling in main(), main.py:371-439                               *)

Controls == {"QUIT", "LEFT", "RIGHT", "DOWN", "ROTATE_COUNTER_CLOCKWISE",
             "ROTATE_CLOCKWISE", "DROP", "HOLD", "OTHER"}

PygameEvent(t, k) == [type |-> t, key |-> k]

AllPygameEvents ==
    {PygameEvent("QUIT", "OTHER")}
        \cup {PygameEvent(t, k) : t \in {"KEYDOWN", "KEYUP"}, k \in Controls}

\* the elif chain of main.py:376-408; "" when no branch matches
KeyDownKey(control) ==
    CASE control = "LEFT" -> "LEFT"
      [] control = "RIGHT" -> "RIGHT"
      [] control = "DOWN" -> "DOWN"
      [] control = "ROTATE_COUNTER_CLOCKWISE" -> "ROTATE_CCW"
      [] control = "ROTATE_CLOCKWISE" -> "ROTATE_CW"
      [] control = "DROP" -> "DROP"
      [] control = "HOLD" -> "HOLD"
      [] OTHER -> ""

\* the elif chain of main.py:410-439
KeyUpKey(control) ==
    CASE control = "LEFT" -> "LEFT"
      [] control = "RIGHT" -> "RIGHT"
      [] control = "DOWN" -> "DOWN"
      [] control = "ROTATE_COUNTER_CLOCKWISE" -> "ROTATE_CCW"
      [] control = "ROTATE_CLOCKWISE" -> "ROTATE_CW"
      [] control = "DROP" -> "DROP"
      [] control = "HOLD" -> "HOLD"
      [] OTHER -> ""

\* a branch that forgets the outbound buffer
EmitInput_NoBuffer(st, input_event) ==
    [st EXCEPT !.tetrion = EnqueueEvent(@, input_event)]

\* a branch that puts the event at the front of the outbound buffer
EmitInput_Front(st, input_event) ==
    [st EXCEPT !.tetrion = EnqueueEvent(@, input_event),
               !.event_buffer = <<input_event>> \o @]

\* a branch that also sets the running flag again
EmitInput_Resume(st, input_event) ==
    [st EXCEPT !.tetrion = EnqueueEvent(@, input_event),
               !.event_buffer = Append(@, input_event),
               !.running = TRUE]

\* the two statements every mapped branch executes, e.g. main.py:380-382
EmitInput(st, input_event) ==
    [st EXCEPT !.tetrion = EnqueueEvent(@, input_event),
               !.event_buffer = Append(@, input_event)]

\* one iteration of the for loop, main.py:371-439
\* st = [tetrion, event_buffer, running]
HandleEvent(st, event, step) ==
    CASE event.type = "QUIT" -> [st EXCEPT !.running = FALSE]
      [] event.type = "KEYDOWN" ->
            IF event.key = "QUIT" THEN [st EXCEPT !.running = FALSE]
            ELSE IF KeyDownKey(event.key) # ""
                 THEN EmitInput(st, Event(KeyDownKey(event.key), "PRESSED", step))
                 ELSE st
      [] event.type = "KEYUP" ->
            IF KeyUpKey(event.key) # ""
            THEN EmitInput(st, Event(KeyUpKey(event.key), "RELEASED", step))
            ELSE st
      [] OTHER -> st

RECURSIVE HandleEvents(_, _, _)
\* the for loop, main.py:371, evaluated by halves: the first half of the
\* events is handled, then the second half from the state the first left
HandleEvents(st, events, step) ==
    IF events = <<>> THEN st
    ELSE IF Len(events) = 1 THEN HandleEvent(st, events[1], step)
    ELSE LET half == Len(events) \div 2
             first == HandleEvents(st, SubSeq(events, 1, half), step)
         IN  IF first.running \in BOOLEAN
             THEN HandleEvents(first, SubSeq(events, half + 1, Len(events)), step)
             ELSE first

\* the lists of at most n elements of set
RECURSIVE SeqsUpTo(_, _)
SeqsUpTo(set, n) ==
    IF n = 0 THEN {<<>>}
    ELSE LET shorter == SeqsUpTo(set, n - 1)
         IN  shorter \cup {Append(s, x) : s \in shorter, x \in set}

----------------------------------------------------------------------------
(* The main thread, main.py:329-490                                        *)

\* main.py:343-352: wait for the first message, create both handles
\* the remote handle created from another field of the message
GameStartTaken_OtherSeed(game_start_message) ==
    /\ IF game_start_message.kind # "GameStart"
       THEN /\ main_pc' = "crashed"
            /\ UNCHANGED <<client_id, seed, tetrion, other_tetrion, handles>>
       ELSE /\ main_pc' = "check_running"
            /\ client_id' = game_start_message.client_id
            /\ seed' = game_start_message.random_seed
            /\ tetrion' = CreateTetrion(game_start_message.random_seed)
            /\ other_tetrion' = CreateTetrion(game_start_message.start_frame)
            /\ handles' = [o \in Tetrions |-> NewObject]
    /\ UNCHANGED <<MODE, running, simulation_step, event_buffer, other_client_frame,
                   elapsed, new_frame, socket_out, sent_frames, polled, last_target,
                   inputs_used, in_order, life_calls>>
    /\ UNCHANGED recv_vars
    /\ UNCHANGED server_vars

\* the first message taken without the isinstance assertion
GameStartTaken_NoAssert(game_start_message) ==
    /\ IF game_start_message.kind # "GameStart"
       THEN /\ main_pc' = "check_running"
            /\ UNCHANGED <<client_id, seed, tetrion, other_tetrion, handles>>
       ELSE /\ main_pc' = "check_running"
            /\ client_id' = game_start_message.client_id
            /\ seed' = game_start_message.random_seed
            /\ tetrion' = CreateTetrion(game_start_message.random_seed)
            /\ other_tetrion' = CreateTetrion(game_start_message.random_seed)
            /\ handles' = [o \in Tetrions |-> NewObject]
    /\ UNCHANGED <<MODE, running, simulation_step, event_buffer, other_client_frame,
                   elapsed, new_frame, socket_out, sent_frames, polled, last_target,
                   inputs_used, in_order, life_calls>>
    /\ UNCHANGED recv_vars
    /\ UNCHANGED server_vars

\* main.py:347-352: what main() does with the message it popped first
GameStartTaken(game_start_message) ==
    /\ IF game_start_message.kind # "GameStart"
       THEN /\ main_pc' = "crashed"
            /\ UNCHANGED <<client_id, seed, tetrion, other_tetrion, handles>>
       ELSE /\ main_pc' = "check_running"
            /\ client_id' = game_start_message.client_id
            /\ seed' = game_start_message.random_seed
            /\ tetrion' = CreateTetrion(game_start_message.random_seed)
            /\ other_tetrion' = CreateTetrion(game_start_message.random_seed)
            /\ handles' = [o \in Tetrions |-> NewObject]
    /\ UNCHANGED <<MODE, running, simulation_step, event_buffer, other_client_frame,
                   elapsed, new_frame, socket_out, sent_frames, polled, last_target,
                   inputs_used, in_order, life_calls>>
    /\ UNCHANGED recv_vars
    /\ UNCHANGED server_vars

StartSession ==
    /\ main_pc = "wait_start"
    /\ Len(message_queue) > 0
    /\ message_queue' = Tail(message_queue)
    /\ GameStartTaken(Head(message_queue))
    /\ UNCHANGED queue_vars
    /\ UNCHANGED fine_vars
    /\ UNCHANGED log_vars

\* main.py:343-344: the length test of the waiting loop, as a step of its own
WaitStart ==
    /\ main_pc = "wait_start"
    /\ Len(message_queue) > 0
    /\ main_pc' = "start_pop"
    /\ UNCHANGED <<MODE, running, message_queue, client_id, seed, tetrion, other_tetrion,
                   simulation_step, event_buffer, other_client_frame, elapsed, new_frame,
                   socket_out, sent_frames, polled, last_target, inputs_used, in_order>>
    /\ UNCHANGED recv_vars
    /\ UNCHANGED server_vars
    /\ UNCHANGED queue_vars
    /\ UNCHANGED fine_vars
    /\ UNCHANGED log_vars
    /\ UNCHANGED life_vars

\* main.py:346-352: message_queue.pop(0) and what follows
StartPop ==
    /\ main_pc = "start_pop"
    /\ message_queue' = Tail(message_queue)
    /\ consumed' = Append(consumed, Head(message_queue))
    /\ GameStartTaken(Head(message_queue))
    /\ UNCHANGED appended
    /\ UNCHANGED fine_vars
    /\ UNCHANGED log_vars

\* main.py:367-370
CheckRunning ==
    /\ main_pc = "check_running"
    /\ main_pc' = IF running THEN "poll" ELSE "join"
    /\ UNCHANGED <<MODE, running, message_queue, client_id, seed, tetrion,
                   other_tetrion, simulation_step, event_buffer, other_client_frame,
                   elapsed, new_frame, socket_out, sent_frames, polled, last_target,
                   inputs_used, in_order>>
    /\ UNCHANGED recv_vars
    /\ UNCHANGED server_vars
    /\ UNCHANGED queue_vars
    /\ UNCHANGED fine_vars
    /\ UNCHANGED log_vars
    /\ UNCHANGED life_vars

\* main.py:371-439: pygame.event.get() returns events, the loop handles them
\* the lists pygame.event.get() may return: at most n events, the first of
\* the set first and the others of the set more
PolledLists(first, more, n) ==
    IF n = 0 THEN {<<>>}
    ELSE {<<>>} \cup {<<e>> \o rest : e \in first, rest \in SeqsUpTo(more, n - 1)}

PollTaken(events) ==
    /\ LET st == HandleEvents([tetrion |-> tetrion, event_buffer |-> event_buffer,
                               running |-> running], events, simulation_step)
       IN  /\ tetrion' = st.tetrion
           /\ event_buffer' = st.event_buffer
           /\ running' = st.running
           /\ polled' = events
           /\ inputs_used' = inputs_used + Len(events)
    /\ main_pc' = "sim_local"
    /\ UNCHANGED <<MODE, message_queue, client_id, seed, other_tetrion, simulation_step,
                   other_client_frame, elapsed, new_frame, socket_out, sent_frames,
                   last_target, in_order>>
    /\ UNCHANGED recv_vars
    /\ UNCHANGED server_vars
    /\ UNCHANGED queue_vars
    /\ UNCHANGED fine_vars

PollEvents(first, more, max_inputs) ==
    /\ main_pc = "poll"
    /\ \E events \in PolledLists(first, more, Min(MaxPoll, max_inputs - inputs_used)) :
          PollTaken(events)
    /\ UNCHANGED log_vars
    /\ UNCHANGED life_vars

\* main.py:371: pygame.event.get() returns a flood of events of one key, as
\* a held key that repeats or a device that bounces gives: a whole flood in
\* one call, or half a flood in each of two calls
FloodSizes == {MaxFlood \div 2 - 1, MaxFlood \div 2, MaxFlood - 1, MaxFlood}

PollFlood ==
    /\ main_pc = "poll"
    /\ \E n \in FloodSizes :
          /\ inputs_used + n <= MaxFlood
          /\ PollTaken([i \in 1 .. n |-> PygameEvent("KEYUP", "HOLD")])
    /\ UNCHANGED log_vars
    /\ UNCHANGED life_vars

\* the same step, with every tetrion.enqueue_event call of the for loop
\* (main.py:381 and the like) written down
PollLogged(first, more, max_inputs) ==
    /\ main_pc = "poll"
    /\ \E events \in PolledLists(first, more, Min(MaxPoll, max_inputs - inputs_used)) :
          PollTaken(events)
    /\ emitted' = emitted \o SubSeq(tetrion'.queue, Len(tetrion.queue) + 1,
                                    Len(tetrion'.queue))
    /\ UNCHANGED sent_events
    /\ UNCHANGED life_vars

\* main.py:441-442
LocalGuard_Always(step) == TRUE

LocalGuard(step) == step > 0

SimulateLocalTarget_Current(step) == step

SimulateLocalTarget(step) == step - 1

SimulateLocal ==
    /\ main_pc = "sim_local"
    /\ tetrion' = IF LocalGuard(simulation_step)
                  THEN SimulateUpUntil(tetrion, SimulateLocalTarget(simulation_step))
                  ELSE tetrion
    /\ polled' = <<>>
    /\ main_pc' = "drain"
    /\ UNCHANGED <<MODE, running, message_queue, client_id, seed, other_tetrion,
                   simulation_step, event_buffer, other_client_frame, elapsed,
                   new_frame, socket_out, sent_frames, last_target, inputs_used,
                   in_order>>
    /\ UNCHANGED recv_vars
    /\ UNCHANGED server_vars
    /\ UNCHANGED queue_vars
    /\ UNCHANGED fine_vars
    /\ UNCHANGED log_vars
    /\ UNCHANGED life_vars

\* main.py:450: index of the entry whose events go to the remote handle
\* (1-based position in the TLA+ sequence)
OtherIndex(own_id) == IF own_id = 0 THEN 2 ELSE 1

\* main.py:444-451: one iteration of the while loop, or its exit
\* main.py:447
AssertClients_Skipped(broadcast_message) == TRUE

AssertClients(broadcast_message) == Len(broadcast_message.events_per_client) >= 1

\* the loop with the events enqueued in every mode
BroadcastTaken_AnyMode(broadcast_message) ==
    IF broadcast_message.kind # "Broadcast"
    THEN /\ main_pc' = "crashed"
         /\ UNCHANGED <<other_client_frame, other_tetrion, in_order>>
    ELSE IF ~AssertClients(broadcast_message)
    THEN /\ main_pc' = "crashed"
         /\ UNCHANGED <<other_client_frame, other_tetrion, in_order>>
    ELSE /\ other_client_frame' = broadcast_message.frame
         /\ in_order' = (in_order /\ broadcast_message.frame >= other_client_frame)
         /\ IF MODE \in {"ONE_PLAYER", "TWO_PLAYERS"}
            THEN IF OtherIndex(client_id) > Len(broadcast_message.events_per_client)
                 THEN /\ main_pc' = "crashed"
                      /\ UNCHANGED other_tetrion
                 ELSE /\ main_pc' = "drain"
                      /\ other_tetrion' = EnqueueAll(other_tetrion,
                            broadcast_message.events_per_client[OtherIndex(client_id)].events)
            ELSE /\ main_pc' = "drain"
                 /\ UNCHANGED other_tetrion

\* main.py:446-451: what the loop does with the message it popped
BroadcastTaken(broadcast_message) ==
    IF broadcast_message.kind # "Broadcast"
    THEN /\ main_pc' = "crashed"
         /\ UNCHANGED <<other_client_frame, other_tetrion, in_order>>
    ELSE IF ~AssertClients(broadcast_message)
    THEN /\ main_pc' = "crashed"
         /\ UNCHANGED <<other_client_frame, other_tetrion, in_order>>
    ELSE /\ other_client_frame' = broadcast_message.frame
         /\ in_order' = (in_order /\ broadcast_message.frame >= other_client_frame)
         /\ IF MODE = "TWO_PLAYERS"
            THEN IF OtherIndex(client_id) > Len(broadcast_message.events_per_client)
                 THEN /\ main_pc' = "crashed"
                      /\ UNCHANGED other_tetrion
                 ELSE /\ main_pc' = "drain"
                      /\ other_tetrion' = EnqueueAll(other_tetrion,
                            broadcast_message.events_per_client[OtherIndex(client_id)].events)
            ELSE /\ main_pc' = "drain"
                 /\ UNCHANGED other_tetrion

DrainQueue ==
    /\ main_pc = "drain"
    /\ IF Len(message_queue) > 0
       THEN /\ message_queue' = Tail(message_queue)
            /\ BroadcastTaken(Head(message_queue))
       ELSE /\ main_pc' = "sim_remote"
            /\ UNCHANGED <<message_queue, other_client_frame, other_tetrion, in_order>>
    /\ UNCHANGED <<MODE, running, client_id, seed, tetrion, simulation_step, event_buffer,
                   elapsed, new_frame, socket_out, sent_frames, polled, last_target,
                   inputs_used>>
    /\ UNCHANGED recv_vars
    /\ UNCHANGED server_vars
    /\ UNCHANGED queue_vars
    /\ UNCHANGED fine_vars
    /\ UNCHANGED log_vars
    /\ UNCHANGED life_vars

\* main.py:444: the length test of the draining loop, as a step of its own
DrainTest ==
    /\ main_pc = "drain"
    /\ main_pc' = IF Len(message_queue) > 0 THEN "drain_pop" ELSE "sim_remote"
    /\ UNCHANGED <<MODE, running, message_queue, client_id, seed, tetrion, other_tetrion,
                   simulation_step, event_buffer, other_client_frame, elapsed, new_frame,
                   socket_out, sent_frames, polled, last_target, inputs_used, in_order>>
    /\ UNCHANGED recv_vars
    /\ UNCHANGED server_vars
    /\ UNCHANGED queue_vars
    /\ UNCHANGED fine_vars
    /\ UNCHANGED log_vars
    /\ UNCHANGED life_vars

\* main.py:445-451: message_queue.pop(0) and what follows
DrainPop_Last ==
    /\ main_pc = "drain_pop"
    /\ message_queue' = SubSeq(message_queue, 1, Len(message_queue) - 1)
    /\ consumed' = Append(consumed, message_queue[Len(message_queue)])
    /\ BroadcastTaken(message_queue[Len(message_queue)])
    /\ UNCHANGED <<MODE, running, client_id, seed, tetrion, simulation_step, event_buffer,
                   elapsed, new_frame, socket_out, sent_frames, polled, last_target,
                   inputs_used>>
    /\ UNCHANGED recv_vars
    /\ UNCHANGED server_vars
    /\ UNCHANGED appended
    /\ UNCHANGED fine_vars
    /\ UNCHANGED log_vars
    /\ UNCHANGED life_vars

DrainPop ==
    /\ main_pc = "drain_pop"
    /\ message_queue' = Tail(message_queue)
    /\ consumed' = Append(consumed, Head(message_queue))
    /\ BroadcastTaken(Head(message_queue))
    /\ UNCHANGED <<MODE, running, client_id, seed, tetrion, simulation_step, event_buffer,
                   elapsed, new_frame, socket_out, sent_frames, polled, last_target,
                   inputs_used>>
    /\ UNCHANGED recv_vars
    /\ UNCHANGED server_vars
    /\ UNCHANGED appended
    /\ UNCHANGED fine_vars
    /\ UNCHANGED log_vars
    /\ UNCHANGED life_vars

\* main.py:453-454
RemoteGuard(step, other_frame) == step > FIXED_DELAY /\ other_frame # NoFrame

\* variants of the target with a slip in it
RemoteTarget_NoMin(step, other_frame) == step - FIXED_DELAY
RemoteTarget_NoDelay(step, other_frame) == Min(step, other_frame)
RemoteTarget_Swapped(step, other_frame) == Min(FIXED_DELAY - step, other_frame)
RemoteTarget_OneMore(step, other_frame) == Min(step - FIXED_DELAY, other_frame) + 1

RemoteTarget(step, other_frame) == Min(step - FIXED_DELAY, other_frame)

SimulateRemote ==
    /\ main_pc = "sim_remote"
    /\ IF RemoteGuard(simulation_step, other_client_frame)
       THEN /\ other_tetrion' = SimulateUpUntil(other_tetrion,
                                    RemoteTarget(simulation_step, other_client_frame))
            /\ last_target' = RemoteTarget(simulation_step, other_client_frame)
       ELSE UNCHANGED <<other_tetrion, last_target>>
    /\ main_pc' = "clock"
    /\ UNCHANGED <<MODE, running, message_queue, client_id, seed, tetrion,
                   simulation_step, event_buffer, other_client_frame, elapsed,
                   new_frame, socket_out, sent_frames, polled, inputs_used, in_order>>
    /\ UNCHANGED recv_vars
    /\ UNCHANGED server_vars
    /\ UNCHANGED queue_vars
    /\ UNCHANGED fine_vars
    /\ UNCHANGED log_vars
    /\ UNCHANGED life_vars

\* main.py:472-473: elapsed is the monotonic clock in ticks of 1/TICKS_PER_SECOND s
FrameOf(ticks) == (ticks * FRAME_RATE) \div TICKS_PER_SECOND

TicksOf(frame) == (frame * TICKS_PER_SECOND) \div FRAME_RATE

\* the time that passes between two readings of time.monotonic(): nothing or
\* a long stall; in SpecLocal also a shorter stall and, early on, small steps
CoarseJumps == {0, BigTickJump}

LocalJumps ==
    {0, MidTickJump, BigTickJump}
        \cup (IF elapsed < FineTicks THEN 1 .. MaxTickJump ELSE {})

\* main.py:475 and main.py:476
CatchUpGuard_Reach(step, frame) == step < frame

CatchUpGuard(step, frame) == step < frame - 1

FlushDue_SkipZero(step) == step > 0 /\ step % FLUSH_PERIOD = 0

FlushDue_Early(step) == step % FLUSH_PERIOD = FLUSH_PERIOD - 1

FlushDue(step) == step % FLUSH_PERIOD = 0

\* main.py:477-478: send_event_buffer(...); event_buffer.clear()
\* st = [step, event_buffer, sent, sent_frames, raised]
Flush(st) ==
    IF SendEventBufferRaises(st.event_buffer)
    THEN [st EXCEPT !.raised = TRUE]
    ELSE [st EXCEPT !.sent = Append(@, [frame |-> st.step, events |-> st.event_buffer,
                                        data |-> SendEventBufferData(st.event_buffer,
                                                                     st.step)]),
                    !.sent_frames = Append(@, st.step),
                    !.event_buffer = <<>>]

\* main.py:475-479: the while loop
RECURSIVE CatchUpLoop(_, _)
CatchUpLoop(st, frame) ==
    IF st.raised \/ ~CatchUpGuard(st.step, frame) THEN st
    ELSE LET flushed == IF FlushDue(st.step) THEN Flush(st) ELSE st
         IN  IF flushed.raised THEN flushed
             ELSE CatchUpLoop([flushed EXCEPT !.step = @ + 1], frame)

\* main.py:472-479: read the clock, catch up with it
CatchUpTaken(limit, jumps) ==
    /\ main_pc = "clock"
    /\ \E jump \in jumps :
          /\ jump = 0 \/ elapsed + jump <= TicksOf(limit)
          /\ elapsed' = elapsed + jump
          /\ new_frame' = FrameOf(elapsed + jump)
          /\ LET st == CatchUpLoop([step |-> simulation_step, event_buffer |-> event_buffer,
                                    sent |-> <<>>, sent_frames |-> sent_frames,
                                    raised |-> FALSE], FrameOf(elapsed + jump))
             IN  /\ simulation_step' = st.step
                 /\ event_buffer' = st.event_buffer
                 /\ socket_out' = st.sent
                 /\ sent_frames' = st.sent_frames
                 /\ main_pc' = IF st.raised THEN "crashed" ELSE "check_running"
    /\ UNCHANGED <<MODE, running, message_queue, client_id, seed, tetrion, other_tetrion,
                   other_client_frame, polled, last_target, inputs_used, in_order>>
    /\ UNCHANGED recv_vars
    /\ UNCHANGED server_vars
    /\ UNCHANGED queue_vars
    /\ UNCHANGED fine_vars

CatchUp(limit, jumps) ==
    /\ CatchUpTaken(limit, jumps)
    /\ UNCHANGED log_vars
    /\ UNCHANGED life_vars

\* the same step, with the event list of every send_event_buffer call
\* (main.py:477) written down
CatchUpLogged(limit, jumps) ==
    /\ CatchUpTaken(limit, jumps)
    /\ sent_events' = sent_events \o [i \in 1 .. Len(socket_out') |-> socket_out'[i].events]
    /\ UNCHANGED emitted
    /\ UNCHANGED life_vars

\* main.py:472-473: the clock is read, as a step of its own
ClockRead(limit, jumps) ==
    /\ main_pc = "clock"
    /\ \E jump \in jumps :
          /\ jump = 0 \/ elapsed + jump <= TicksOf(limit)
          /\ elapsed' = elapsed + jump
          /\ new_frame' = FrameOf(elapsed + jump)
    /\ tick_start' = simulation_step
    /\ socket_out' = <<>>
    /\ main_pc' = "catch_up"
    /\ UNCHANGED <<MODE, running, message_queue, client_id, seed, tetrion, other_tetrion,
                   simulation_step, event_buffer, other_client_frame, sent_frames, polled,
                   last_target, inputs_used, in_order>>
    /\ UNCHANGED recv_vars
    /\ UNCHANGED server_vars
    /\ UNCHANGED queue_vars
    /\ UNCHANGED <<locked, handled, late_polls>>
    /\ UNCHANGED log_vars
    /\ UNCHANGED life_vars

\* main.py:475-479: the test of the while loop and, when it holds, one
\* iteration
CatchUpStep ==
    /\ main_pc = "catch_up"
    /\ IF CatchUpGuard(simulation_step, new_frame)
       THEN LET st == [step |-> simulation_step, event_buffer |-> event_buffer,
                       sent |-> socket_out, sent_frames |-> sent_frames,
                       raised |-> FALSE]
                flushed == IF FlushDue(st.step) THEN Flush(st) ELSE st
            IN  /\ simulation_step' = IF flushed.raised THEN simulation_step
                                      ELSE simulation_step + 1
                /\ event_buffer' = flushed.event_buffer
                /\ socket_out' = flushed.sent
                /\ sent_frames' = flushed.sent_frames
                /\ main_pc' = IF flushed.raised THEN "crashed" ELSE "catch_up"
       ELSE /\ main_pc' = "check_running"
            /\ UNCHANGED <<simulation_step, event_buffer, socket_out, sent_frames>>
    /\ UNCHANGED <<MODE, running, message_queue, client_id, seed, tetrion, other_tetrion,
                   other_client_frame, elapsed, new_frame, polled, last_target,
                   inputs_used, in_order>>
    /\ UNCHANGED recv_vars
    /\ UNCHANGED server_vars
    /\ UNCHANGED queue_vars
    /\ UNCHANGED fine_vars
    /\ UNCHANGED log_vars
    /\ UNCHANGED life_vars

\* main.py:481-483: worker_thread.join()
Join ==
    /\ main_pc = "join"
    /\ recv_pc \in {"done", "crashed"}
    /\ main_pc' = "done"
    /\ UNCHANGED <<MODE, running, message_queue, client_id, seed, tetrion, other_tetrion,
                   simulation_step, event_buffer, other_client_frame, elapsed, new_frame,
                   socket_out, sent_frames, polled, last_target, inputs_used, in_order>>
    /\ UNCHANGED recv_vars
    /\ UNCHANGED server_vars
    /\ UNCHANGED queue_vars
    /\ UNCHANGED fine_vars
    /\ UNCHANGED log_vars
    /\ UNCHANGED life_vars

----------------------------------------------------------------------------
(* The receiver thread, keep_receiving, main.py:224-280                    *)

RECV_SIZE == 4096        \* main.py:236

\* main.py:333: the socket is closed when main() leaves its with block
SocketOpen == main_pc \notin {"crashed", "done"}

\* main.py:228-231: the loop ends when the flag is false
RecvStop ==
    /\ recv_pc = "loop"
    /\ ~running
    /\ recv_pc' = "done"
    /\ UNCHANGED <<MODE, running, message_queue, buffer, current_header>>
    /\ UNCHANGED main_vars
    /\ UNCHANGED server_vars
    /\ UNCHANGED queue_vars
    /\ UNCHANGED fine_vars
    /\ UNCHANGED log_vars
    /\ UNCHANGED life_vars

\* main.py:232: select on a closed socket raises
RecvClosed ==
    /\ recv_pc = "loop"
    /\ running
    /\ ~SocketOpen
    /\ recv_pc' = "crashed"
    /\ UNCHANGED <<MODE, running, message_queue, buffer, current_header>>
    /\ UNCHANGED main_vars
    /\ UNCHANGED server_vars
    /\ UNCHANGED queue_vars
    /\ UNCHANGED fine_vars
    /\ UNCHANGED log_vars
    /\ UNCHANGED life_vars

----------------------------------------------------------------------------
(* The game server: the peer of the socket. Its messages follow the wire   *)
(* layout of GameStart and EventBroadcast frames.                          *)

EncodeGameStart(m) ==
    PackBE(MessageTypeValue("GAME_START"), 1) \o PackBE(GAME_START_SIZE, 2)
        \o PackBE(m.client_id, 1) \o PackBE(m.start_frame, 8) \o PackBE(m.random_seed, 8)

RECURSIVE EncodeClients(_)
EncodeClients(per_client) ==
    IF per_client = <<>> THEN <<>>
    ELSE PackBE(Head(per_client).client_id, 1) \o PackBE(Len(Head(per_client).events), 1)
            \o EncodeEvents(Head(per_client).events) \o EncodeClients(Tail(per_client))

EncodeBroadcast(m) ==
    LET body == PackBE(m.frame, 8) \o PackBE(Len(m.events_per_client), 1)
                    \o EncodeClients(m.events_per_client)
    IN  PackBE(MessageTypeValue("EVENT_BROADCAST"), 1) \o PackBE(Len(body), 2) \o body

EncodeMessage(m) ==
    IF m.kind = "GameStart" THEN EncodeGameStart(m) ELSE EncodeBroadcast(m)

Seeds == {42}
ClientIds == {0, 1}

GameStarts == {GameStartMessage(c, 0, s) : c \in ClientIds, s \in Seeds}

\* the per-client lists of a Broadcast whose events carry the tag
PerClientLists(tag) ==
    {<<>>,
     <<ClientEvents(0, <<Event("LEFT", "PRESSED", tag)>>)>>,
     <<ClientEvents(0, <<Event("LEFT", "PRESSED", tag)>>),
       ClientEvents(1, <<Event("RIGHT", "PRESSED", tag)>>)>>,
     <<ClientEvents(1, <<Event("RIGHT", "PRESSED", tag)>>),
       ClientEvents(0, <<Event("LEFT", "PRESSED", tag)>>)>>}

Broadcasts(frames, tag) ==
    {BroadcastMessage(f, per_client) : f \in frames, per_client \in PerClientLists(tag)}

BroadcastFrames == {EarlyFrame, LateFrame}

\* the server announces the game, then broadcasts frames that never go back;
\* the events of a Broadcast are tagged later than the Broadcast before it
InOrderMessages ==
    GameStarts
        \cup Broadcasts({f \in BroadcastFrames : f >= server_frame}, server_frame + 1)

\* the Broadcasts whose frame is smaller than the one written before them
OutOfOrderMessages ==
    Broadcasts({f \in BroadcastFrames : f < server_frame}, server_frame + 1)

----------------------------------------------------------------------------
(* keep_receiving, one iteration with data                                 *)

\* main.py:228-278: one iteration in which select reports the socket readable:
\* recv returns the bytes of the message m the server has written, the thread
\* extends its buffer and decodes
RecvData(m, max_sends) ==
    /\ recv_pc = "loop"
    /\ running
    /\ SocketOpen
    /\ server_sends < max_sends
    /\ server_sends' = server_sends + 1
    /\ server_frame' = IF m.kind = "Broadcast" THEN m.frame ELSE server_frame
    /\ LET data == Take(EncodeMessage(m), RECV_SIZE)
           result == Receive(buffer, current_header, data)
       IN  /\ buffer' = result.buffer
           /\ current_header' = result.header
           /\ message_queue' = message_queue \o result.messages
           /\ recv_pc' = IF result.raised THEN "crashed" ELSE "loop"
    /\ UNCHANGED <<MODE, running, echo>>
    /\ UNCHANGED main_vars
    /\ UNCHANGED stream_vars
    /\ UNCHANGED queue_vars
    /\ UNCHANGED fine_vars
    /\ UNCHANGED log_vars
    /\ UNCHANGED life_vars

\* the same iteration when the peer sends back a message this client has just
\* written with send_event_buffer
RecvEcho ==
    /\ recv_pc = "loop"
    /\ running
    /\ SocketOpen
    /\ echo = <<>>
    /\ \E i \in 1 .. Len(socket_out) :
          LET result == Receive(buffer, current_header, Take(socket_out[i].data, RECV_SIZE))
          IN  /\ echo' = <<[frame |-> socket_out[i].frame, events |-> socket_out[i].events]>>
              /\ buffer' = result.buffer
              /\ current_header' = result.header
              /\ message_queue' = message_queue \o result.messages
              /\ recv_pc' = IF result.raised THEN "crashed" ELSE "loop"
    /\ UNCHANGED <<MODE, running, server_sends, server_frame>>
    /\ UNCHANGED main_vars
    /\ UNCHANGED stream_vars
    /\ UNCHANGED queue_vars
    /\ UNCHANGED fine_vars
    /\ UNCHANGED log_vars
    /\ UNCHANGED life_vars

RecvInOrder(max_sends) == \E m \in InOrderMessages : RecvData(m, max_sends)

----------------------------------------------------------------------------
(* The byte stream: the server writes frames, recv() returns the bytes in  *)
(* pieces of any size, the peer may close, reset or abort the connection.  *)

\* a frame whose type tag is not one the client decodes
OtherFrame(tag, payload) == [kind |-> "Other", tag |-> tag, payload |-> payload]

\* a frame whose header announces the payload of the message m and some
\* more bytes after it
PaddedFrame(m, pad) == [kind |-> "Padded", inner |-> m, pad |-> pad]

EncodeFrame(m) ==
    IF m.kind = "Other"
    THEN PackBE(m.tag, 1) \o PackBE(Len(m.payload), 2) \o m.payload
    ELSE IF m.kind = "Padded"
    THEN LET payload == Drop(EncodeMessage(m.inner), HEADER_SIZE) \o m.pad
         IN  <<EncodeMessage(m.inner)[1]>> \o PackBE(Len(payload), 2) \o payload
    ELSE EncodeMessage(m)

StreamGameStarts == {GameStartMessage(0, 0, 42), GameStartMessage(1, 3, 258)}

StreamBroadcasts ==
    {BroadcastMessage(EarlyFrame, <<ClientEvents(0, <<>>)>>),
     BroadcastMessage(LateFrame, <<ClientEvents(0, <<Event("HOLD", "RELEASED", 258)>>),
                                   ClientEvents(1, <<>>)>>)}

\* tags 0 (HEARTBEAT) and 1 (GRID_STATE) of the enum and tag 4 outside of it
OtherFrames == {OtherFrame(0, <<7, 7>>), OtherFrame(1, <<>>), OtherFrame(4, <<7>>)}

StreamFrames == StreamGameStarts \cup StreamBroadcasts \cup OtherFrames

\* the receiver is between two frames
AtFrameBoundary == wire = <<>> /\ buffer = <<>> /\ current_header = NoHeader

\* the server writes a frame; a paced server writes it after the frame before
\* it has been received entirely, or after the receiver has ended
ServerWriteOf(frames, paced, max_sends) ==
    /\ peer = "open"
    /\ SocketOpen
    /\ server_sends < max_sends
    /\ paced => (AtFrameBoundary \/ recv_pc # "loop")
    /\ \E m \in frames :
          /\ wire' = wire \o EncodeFrame(m)
          /\ written' = Append(written, m)
    /\ server_sends' = server_sends + 1
    /\ UNCHANGED <<MODE, running, message_queue, server_frame, echo, peer, idle, splits,
                   eof_reads>>
    /\ UNCHANGED main_vars
    /\ UNCHANGED recv_vars
    /\ UNCHANGED queue_vars
    /\ UNCHANGED fine_vars
    /\ UNCHANGED log_vars
    /\ UNCHANGED life_vars

ServerWrite(paced, max_sends) == ServerWriteOf(StreamFrames, paced, max_sends)

\* a GameStart, a Broadcast, and a GameStart whose header announces two
\* bytes more than the 17 of its fields
FramingFrames ==
    {GameStartMessage(0, 0, 42),
     BroadcastMessage(EarlyFrame, <<ClientEvents(0, <<>>)>>),
     PaddedFrame(GameStartMessage(1, 3, 258), <<7, 7>>)}

\* the peer closes the connection in an orderly way, or the connection is
\* reset or aborted
ServerClose ==
    /\ peer = "open"
    /\ SocketOpen
    /\ peer' \in {"closed", "reset", "aborted"}
    /\ UNCHANGED <<MODE, running, message_queue, server_sends, server_frame, echo, wire,
                   written, idle, splits, eof_reads>>
    /\ UNCHANGED main_vars
    /\ UNCHANGED recv_vars
    /\ UNCHANGED queue_vars
    /\ UNCHANGED fine_vars
    /\ UNCHANGED log_vars
    /\ UNCHANGED life_vars

\* the numbers of bytes one recv() may return
ReadSizes == 1 .. Min(Len(wire), RECV_SIZE)

\* recv() returns all that is on the wire
WholeRead == {Min(Len(wire), RECV_SIZE)}

\* main.py:228-278: select reports the socket readable and recv returns the
\* first n bytes on the wire
RecvRead(sizes) ==
    /\ recv_pc = "loop"
    /\ running
    /\ SocketOpen
    /\ peer \in {"open", "closed"}
    /\ wire # <<>>
    /\ \E n \in sizes :
          /\ n < Len(wire) => splits < MaxSplits
          /\ splits' = IF n < Len(wire) THEN splits + 1 ELSE splits
          /\ wire' = Drop(wire, n)
          /\ LET result == Receive(buffer, current_header, Take(wire, n))
             IN  /\ buffer' = result.buffer
                 /\ current_header' = result.header
                 /\ message_queue' = message_queue \o result.messages
                 /\ appended' = appended \o result.messages
                 /\ recv_pc' = IF result.raised THEN "crashed" ELSE "loop"
    /\ UNCHANGED <<MODE, running, server_sends, server_frame, echo, peer, written, idle,
                   eof_reads, consumed>>
    /\ UNCHANGED main_vars
    /\ UNCHANGED fine_vars
    /\ UNCHANGED log_vars
    /\ UNCHANGED life_vars

\* main.py:232-234 and main.py:237-238: select times out, or recv raises
\* BlockingIOError; the loop continues
RecvIdle_Break ==
    /\ recv_pc = "loop"
    /\ running
    /\ SocketOpen
    /\ peer = "open"
    /\ idle < MaxIdle
    /\ idle' = idle + 1
    /\ recv_pc' = "done"
    /\ UNCHANGED <<MODE, running, message_queue, buffer, current_header, server_sends,
                   server_frame, echo, wire, peer, written, splits, eof_reads>>
    /\ UNCHANGED main_vars
    /\ UNCHANGED queue_vars
    /\ UNCHANGED fine_vars
    /\ UNCHANGED log_vars
    /\ UNCHANGED life_vars

RecvIdle ==
    /\ recv_pc = "loop"
    /\ running
    /\ SocketOpen
    /\ peer = "open"
    /\ idle < MaxIdle
    /\ idle' = idle + 1
    /\ UNCHANGED <<MODE, running, message_queue, server_sends, server_frame, echo, wire,
                   peer, written, splits, eof_reads>>
    /\ UNCHANGED main_vars
    /\ UNCHANGED recv_vars
    /\ UNCHANGED queue_vars
    /\ UNCHANGED fine_vars
    /\ UNCHANGED log_vars
    /\ UNCHANGED life_vars

\* main.py:236 and main.py:248-278: the peer has closed the connection and
\* recv returns zero bytes; the buffer is extended by nothing and the
\* iteration goes on as after any read
RecvEof ==
    /\ recv_pc = "loop"
    /\ running
    /\ SocketOpen
    /\ peer = "closed"
    /\ wire = <<>>
    /\ eof_reads < MaxEofReads
    /\ eof_reads' = eof_reads + 1
    /\ LET result == Receive(buffer, current_header, <<>>)
       IN  /\ buffer' = result.buffer
           /\ current_header' = result.header
           /\ message_queue' = message_queue \o result.messages
           /\ appended' = appended \o result.messages
           /\ recv_pc' = IF result.raised THEN "crashed" ELSE "loop"
    /\ UNCHANGED <<MODE, running, server_sends, server_frame, echo, wire, peer, written,
                   idle, splits, consumed>>
    /\ UNCHANGED main_vars
    /\ UNCHANGED fine_vars
    /\ UNCHANGED log_vars
    /\ UNCHANGED life_vars

\* main.py:239-246: recv raises ConnectionAbortedError or
\* ConnectionResetError; the loop ends
RecvReset ==
    /\ recv_pc = "loop"
    /\ running
    /\ SocketOpen
    /\ peer \in {"reset", "aborted"}
    /\ recv_pc' = "done"
    /\ UNCHANGED <<MODE, running, message_queue, buffer, current_header>>
    /\ UNCHANGED main_vars
    /\ UNCHANGED server_vars
    /\ UNCHANGED queue_vars
    /\ UNCHANGED fine_vars
    /\ UNCHANGED log_vars
    /\ UNCHANGED life_vars

RecvOutOfOrder(max_sends) == \E m \in OutOfOrderMessages : RecvData(m, max_sends)

----------------------------------------------------------------------------
(* The running flag behind its lock, statement by statement:               *)
(* synchronized.py:7-36, main.py:228-234, main.py:367-378                  *)

\* synchronized.py:35: Lock.acquire() returns when the lock is free
CanAcquire_Always(is_locked) == TRUE

CanAcquire(is_locked) == ~is_locked

\* main.py:372 and main.py:375-376: the events that ask to quit
QuitRequest(event) ==
    \/ event.type = "QUIT"
    \/ event.type = "KEYDOWN" /\ event.key = "QUIT"

\* main.py:368: running.lock()
MainLock ==
    /\ main_pc = "check_running"
    /\ CanAcquire(locked)
    /\ locked' = TRUE
    /\ main_pc' = "check_locked"
    /\ UNCHANGED <<MODE, running, message_queue, client_id, seed, tetrion, other_tetrion,
                   simulation_step, event_buffer, other_client_frame, elapsed, new_frame,
                   socket_out, sent_frames, polled, last_target, inputs_used, in_order>>
    /\ UNCHANGED recv_vars
    /\ UNCHANGED server_vars
    /\ UNCHANGED queue_vars
    /\ UNCHANGED <<handled, tick_start, late_polls>>
    /\ UNCHANGED log_vars
    /\ UNCHANGED life_vars

\* main.py:369-370: is_running.get() and the break
MainCheck ==
    /\ main_pc = "check_locked"
    /\ main_pc' = IF running THEN "check_pass" ELSE "check_break"
    /\ UNCHANGED <<MODE, running, message_queue, client_id, seed, tetrion, other_tetrion,
                   simulation_step, event_buffer, other_client_frame, elapsed, new_frame,
                   socket_out, sent_frames, polled, last_target, inputs_used, in_order>>
    /\ UNCHANGED recv_vars
    /\ UNCHANGED server_vars
    /\ UNCHANGED queue_vars
    /\ UNCHANGED fine_vars
    /\ UNCHANGED log_vars
    /\ UNCHANGED life_vars

\* synchronized.py:21-28: __exit__ as the with block of main.py:368 is left,
\* at its end or by the break
MainExit ==
    /\ main_pc \in {"check_pass", "check_break"}
    /\ locked' = FALSE
    /\ main_pc' = IF main_pc = "check_pass" THEN "poll" ELSE "join"
    /\ UNCHANGED <<MODE, running, message_queue, client_id, seed, tetrion, other_tetrion,
                   simulation_step, event_buffer, other_client_frame, elapsed, new_frame,
                   socket_out, sent_frames, polled, last_target, inputs_used, in_order>>
    /\ UNCHANGED recv_vars
    /\ UNCHANGED server_vars
    /\ UNCHANGED queue_vars
    /\ UNCHANGED <<handled, tick_start, late_polls>>
    /\ UNCHANGED log_vars
    /\ UNCHANGED life_vars

\* main.py:371: pygame.event.get() returns the events of this tick
PollGet(first, more, max_inputs) ==
    /\ main_pc = "poll"
    /\ \E events \in PolledLists(first, more, Min(MaxPoll, max_inputs - inputs_used)) :
          /\ polled' = events
          /\ inputs_used' = inputs_used + Len(events)
    /\ handled' = 0
    /\ main_pc' = "handle"
    /\ UNCHANGED <<MODE, running, message_queue, client_id, seed, tetrion, other_tetrion,
                   simulation_step, event_buffer, other_client_frame, elapsed, new_frame,
                   socket_out, sent_frames, last_target, in_order>>
    /\ UNCHANGED recv_vars
    /\ UNCHANGED server_vars
    /\ UNCHANGED queue_vars
    /\ UNCHANGED <<locked, tick_start, late_polls>>
    /\ UNCHANGED log_vars
    /\ UNCHANGED life_vars

\* main.py:373 and main.py:377: running.lock() in the branches of a quit
\* request
HandleQuitLock ==
    /\ main_pc = "handle"
    /\ handled < Len(polled)
    /\ QuitRequest(polled[handled + 1])
    /\ CanAcquire(locked)
    /\ locked' = TRUE
    /\ main_pc' = "quit_locked"
    /\ UNCHANGED <<MODE, running, message_queue, client_id, seed, tetrion, other_tetrion,
                   simulation_step, event_buffer, other_client_frame, elapsed, new_frame,
                   socket_out, sent_frames, polled, last_target, inputs_used, in_order>>
    /\ UNCHANGED recv_vars
    /\ UNCHANGED server_vars
    /\ UNCHANGED queue_vars
    /\ UNCHANGED <<handled, tick_start, late_polls>>
    /\ UNCHANGED log_vars
    /\ UNCHANGED life_vars

\* main.py:374 and main.py:378: is_running.set(False)
HandleQuitSet ==
    /\ main_pc = "quit_locked"
    /\ running' = FALSE
    /\ main_pc' = "quit_exit"
    /\ UNCHANGED <<MODE, message_queue, client_id, seed, tetrion, other_tetrion,
                   simulation_step, event_buffer, other_client_frame, elapsed, new_frame,
                   socket_out, sent_frames, polled, last_target, inputs_used, in_order>>
    /\ UNCHANGED recv_vars
    /\ UNCHANGED server_vars
    /\ UNCHANGED queue_vars
    /\ UNCHANGED fine_vars
    /\ UNCHANGED log_vars
    /\ UNCHANGED life_vars

\* synchronized.py:21-28: __exit__ at the end of the with block of
\* main.py:373 or main.py:377; the for loop goes on to the next event
HandleQuitExit ==
    /\ main_pc = "quit_exit"
    /\ locked' = FALSE
    /\ handled' = handled + 1
    /\ main_pc' = "handle"
    /\ UNCHANGED <<MODE, running, message_queue, client_id, seed, tetrion, other_tetrion,
                   simulation_step, event_buffer, other_client_frame, elapsed, new_frame,
                   socket_out, sent_frames, polled, last_target, inputs_used, in_order>>
    /\ UNCHANGED recv_vars
    /\ UNCHANGED server_vars
    /\ UNCHANGED queue_vars
    /\ UNCHANGED <<tick_start, late_polls>>
    /\ UNCHANGED log_vars
    /\ UNCHANGED life_vars

\* main.py:379-439: an event that is no quit request
HandleKey ==
    /\ main_pc = "handle"
    /\ handled < Len(polled)
    /\ ~QuitRequest(polled[handled + 1])
    /\ LET st == HandleEvent([tetrion |-> tetrion, event_buffer |-> event_buffer,
                              running |-> running], polled[handled + 1], simulation_step)
       IN  /\ tetrion' = st.tetrion
           /\ event_buffer' = st.event_buffer
    /\ handled' = handled + 1
    /\ UNCHANGED <<MODE, running, message_queue, main_pc, client_id, seed, other_tetrion,
                   simulation_step, other_client_frame, elapsed, new_frame, socket_out,
                   sent_frames, polled, last_target, inputs_used, in_order>>
    /\ UNCHANGED recv_vars
    /\ UNCHANGED server_vars
    /\ UNCHANGED queue_vars
    /\ UNCHANGED <<locked, tick_start, late_polls>>
    /\ UNCHANGED log_vars
    /\ UNCHANGED life_vars

\* main.py:371: the for loop has gone through the list
HandleDone ==
    /\ main_pc = "handle"
    /\ handled = Len(polled)
    /\ handled' = 0
    /\ main_pc' = "sim_local"
    /\ UNCHANGED <<MODE, running, message_queue, client_id, seed, tetrion, other_tetrion,
                   simulation_step, event_buffer, other_client_frame, elapsed, new_frame,
                   socket_out, sent_frames, polled, last_target, inputs_used, in_order>>
    /\ UNCHANGED recv_vars
    /\ UNCHANGED server_vars
    /\ UNCHANGED queue_vars
    /\ UNCHANGED <<locked, tick_start, late_polls>>
    /\ UNCHANGED log_vars
    /\ UNCHANGED life_vars

\* main.py:229: running.lock()
RecvLock ==
    /\ recv_pc = "loop"
    /\ CanAcquire(locked)
    /\ locked' = TRUE
    /\ recv_pc' = "loop_locked"
    /\ UNCHANGED <<MODE, running, message_queue, buffer, current_header>>
    /\ UNCHANGED main_vars
    /\ UNCHANGED server_vars
    /\ UNCHANGED queue_vars
    /\ UNCHANGED <<handled, tick_start, late_polls>>
    /\ UNCHANGED log_vars
    /\ UNCHANGED life_vars

\* main.py:230-231: is_running.get() and the break
RecvCheck_Ignore ==
    /\ recv_pc = "loop_locked"
    /\ recv_pc' = "loop_pass"
    /\ UNCHANGED <<MODE, running, message_queue, buffer, current_header>>
    /\ UNCHANGED main_vars
    /\ UNCHANGED server_vars
    /\ UNCHANGED queue_vars
    /\ UNCHANGED fine_vars
    /\ UNCHANGED log_vars
    /\ UNCHANGED life_vars

RecvCheck ==
    /\ recv_pc = "loop_locked"
    /\ recv_pc' = IF running THEN "loop_pass" ELSE "loop_break"
    /\ UNCHANGED <<MODE, running, message_queue, buffer, current_header>>
    /\ UNCHANGED main_vars
    /\ UNCHANGED server_vars
    /\ UNCHANGED queue_vars
    /\ UNCHANGED fine_vars
    /\ UNCHANGED log_vars
    /\ UNCHANGED life_vars

\* synchronized.py:21-28: __exit__ as the with block of main.py:229 is left,
\* at its end or by the break
RecvExit ==
    /\ recv_pc \in {"loop_pass", "loop_break"}
    /\ locked' = FALSE
    /\ recv_pc' = IF recv_pc = "loop_pass" THEN "select" ELSE "done"
    /\ UNCHANGED <<MODE, running, message_queue, buffer, current_header>>
    /\ UNCHANGED main_vars
    /\ UNCHANGED server_vars
    /\ UNCHANGED queue_vars
    /\ UNCHANGED <<handled, tick_start, late_polls>>
    /\ UNCHANGED log_vars
    /\ UNCHANGED life_vars

\* main.py:232-234: select returns after 0.5 s with no socket ready, and the
\* loop continues
RecvTimeout ==
    /\ recv_pc = "select"
    /\ SocketOpen
    /\ recv_pc' = "loop"
    /\ late_polls' = IF running THEN late_polls ELSE late_polls + 1
    /\ UNCHANGED <<MODE, running, message_queue, buffer, current_header>>
    /\ UNCHANGED main_vars
    /\ UNCHANGED server_vars
    /\ UNCHANGED queue_vars
    /\ UNCHANGED <<locked, handled, tick_start>>
    /\ UNCHANGED log_vars
    /\ UNCHANGED life_vars

\* main.py:232-278: select reports the socket readable, recv returns the
\* bytes of the message m and the thread decodes
RecvSelected(m, max_sends) ==
    /\ recv_pc = "select"
    /\ SocketOpen
    /\ server_sends < max_sends
    /\ server_sends' = server_sends + 1
    /\ server_frame' = IF m.kind = "Broadcast" THEN m.frame ELSE server_frame
    /\ late_polls' = IF running THEN late_polls ELSE late_polls + 1
    /\ LET data == Take(EncodeMessage(m), RECV_SIZE)
           result == Receive(buffer, current_header, data)
       IN  /\ buffer' = result.buffer
           /\ current_header' = result.header
           /\ message_queue' = message_queue \o result.messages
           /\ recv_pc' = IF result.raised THEN "crashed" ELSE "loop"
    /\ UNCHANGED <<MODE, running, echo>>
    /\ UNCHANGED main_vars
    /\ UNCHANGED stream_vars
    /\ UNCHANGED queue_vars
    /\ UNCHANGED <<locked, handled, tick_start>>
    /\ UNCHANGED log_vars
    /\ UNCHANGED life_vars

\* a server that keeps to the protocol: a GameStart, then Broadcasts with an
\* entry for each of the two clients
ProtocolMessages ==
    IF server_sends = 0
    THEN {GameStartMessage(0, 0, 42)}
    ELSE {BroadcastMessage(EarlyFrame, <<ClientEvents(0, <<>>), ClientEvents(1, <<>>)>>)}

RecvProtocol(max_sends) == \E m \in ProtocolMessages : RecvSelected(m, max_sends)

----------------------------------------------------------------------------
(* Specifications                                                          *)

NoTetrion == CreateTetrion(NoFrame)

PlayedEvents == {PygameEvent("KEYDOWN", "QUIT"), PygameEvent("KEYUP", "HOLD")}

QuitEvents == {PygameEvent("QUIT", "OTHER"), PygameEvent("KEYDOWN", "QUIT")}

Init ==
    /\ MODE \in {"ONE_PLAYER", "TWO_PLAYERS"}
    /\ running = TRUE
    /\ message_queue = <<>>
    /\ main_pc = "wait_start"
    /\ client_id = NoFrame
    /\ seed = NoFrame
    /\ tetrion = NoTetrion
    /\ other_tetrion = NoTetrion
    /\ simulation_step = 0
    /\ event_buffer = <<>>
    /\ other_client_frame = NoFrame
    /\ elapsed = 0
    /\ new_frame = 0
    /\ socket_out = <<>>
    /\ sent_frames = <<>>
    /\ polled = <<>>
    /\ last_target = NoFrame
    /\ recv_pc = "loop"
    /\ buffer = <<>>
    /\ current_header = NoHeader
    /\ server_sends = 0
    /\ server_frame = NoFrame
    /\ inputs_used = 0
    /\ in_order = TRUE
    /\ echo = <<>>
    /\ wire = <<>>
    /\ peer = "open"
    /\ written = <<>>
    /\ idle = 0
    /\ splits = 0
    /\ eof_reads = 0
    /\ appended = <<>>
    /\ consumed = <<>>
    /\ locked = FALSE
    /\ handled = 0
    /\ tick_start = 0
    /\ late_polls = 0
    /\ emitted = <<>>
    /\ sent_events = <<>>
    /\ handles = [o \in Tetrions |-> NoObject]
    /\ life_calls = [o \in Tetrions |-> <<>>]

MainStep(first, more, max_inputs, limit, jumps) ==
    \/ StartSession
    \/ CheckRunning
    \/ PollEvents(first, more, max_inputs)
    \/ SimulateLocal
    \/ DrainQueue
    \/ SimulateRemote
    \/ CatchUp(limit, jumps)
    \/ Join

RecvStep(max_sends) ==
    \/ RecvStop
    \/ RecvClosed
    \/ RecvInOrder(max_sends)

\* the session seen from the remote side: the server announces the game and
\* broadcasts, the user may quit
Next ==
    \/ MainStep(QuitEvents, QuitEvents, MaxInputs, MaxFrame, CoarseJumps)
    \/ RecvStep(MaxServerSends)

Spec == Init /\ [][Next]_vars

NextAnyOrder ==
    \/ Next
    \/ RecvOutOfOrder(MaxServerSends)

SpecAnyOrder == Init /\ [][NextAnyOrder]_vars

\* the session seen from the local side: the user plays, the clock moves in
\* small and in large steps
NextLocal ==
    \/ MainStep(PlayedEvents, PlayedEvents, MaxLocalInputs, MaxFrame, LocalJumps)
    \/ RecvStep(MaxLocalSends)

SpecLocal == Init /\ [][NextLocal]_vars

\* a short session in which every key of the keyboard is pressed and released
\* every pygame event is the first event of some session
FirstEvents == IF inputs_used = 0 THEN AllPygameEvents ELSE PlayedEvents

NextKeys ==
    \/ MainStep(FirstEvents, PlayedEvents, MaxKeysInputs, MaxKeysFrame, LocalJumps)
    \/ RecvStep(MaxLocalSends)

SpecKeys == Init /\ [][NextKeys]_vars

\* the local session with a peer that sends the client's messages back
NextLoopback ==
    \/ MainStep(PlayedEvents, PlayedEvents, MaxLocalInputs, MaxFrame, CoarseJumps)
    \/ RecvStep(MaxLocalSends)
    \/ RecvEcho

SpecLoopback == Init /\ [][NextLoopback]_vars

\* the clock is not read to have moved
StillClock == {0}

\* the main thread with the length test and the pop of the queue as two steps
MainStepSplit(first, more, max_inputs, limit, jumps) ==
    \/ WaitStart
    \/ StartPop
    \/ CheckRunning
    \/ PollEvents(first, more, max_inputs)
    \/ SimulateLocal
    \/ DrainTest
    \/ DrainPop
    \/ SimulateRemote
    \/ CatchUp(limit, jumps)
    \/ Join

\* the receiver before the main thread's first pop: recv() returns the bytes
\* of the frames in pieces, the frames arrive one after the other
NextStream ==
    \/ RecvRead(ReadSizes)
    \/ RecvIdle
    \/ ServerWrite(TRUE, MaxStreamSends)

SpecStream == Init /\ [][NextStream]_vars

\* main.py:232-236: the steps of RecvRead in which recv() returns all the
\* bytes on the wire
ReadAll ==
    /\ recv_pc = "loop"
    /\ running
    /\ SocketOpen
    /\ peer \in {"open", "closed"}
    /\ wire # <<>>
    /\ wire' = <<>>

\* select reports a socket with bytes as readable and the thread is
\* scheduled: bytes that stay on the wire are read in the end
SpecStreamFair == SpecStream /\ WF_wire(ReadAll)

\* both threads, the server may write a frame before the one before it was
\* read; recv() returns all that is on the wire
NextBurst ==
    \/ MainStepSplit(QuitEvents, QuitEvents, MaxInputs, MaxFrame, StillClock)
    \/ RecvStop
    \/ RecvClosed
    \/ RecvRead(WholeRead)
    \/ ServerWrite(FALSE, MaxStreamSends)

SpecBurst == Init /\ [][NextBurst]_vars

\* both threads, the peer may close, reset or abort the connection
NextPeer ==
    \/ MainStepSplit(QuitEvents, QuitEvents, MaxInputs, MaxFrame, StillClock)
    \/ RecvStop
    \/ RecvClosed
    \/ RecvRead(WholeRead)
    \/ RecvEof
    \/ RecvReset
    \/ ServerWrite(TRUE, MaxStreamSends)
    \/ ServerClose

SpecPeer == Init /\ [][NextPeer]_vars

\* SpecPeer with a main thread that takes a step whenever it can take one
SpecPeerFair ==
    /\ SpecPeer
    /\ WF_vars(MainStepSplit(QuitEvents, QuitEvents, MaxInputs, MaxFrame, StillClock))

\* the main thread with the emitted and the sent events written down
MainStepLogged(first, more, max_inputs, limit, jumps) ==
    \/ StartSession
    \/ CheckRunning
    \/ PollLogged(first, more, max_inputs)
    \/ SimulateLocal
    \/ DrainQueue
    \/ SimulateRemote
    \/ CatchUpLogged(limit, jumps)
    \/ Join

\* two keys the game maps, and the quit key
EmitEvents ==
    {PygameEvent("KEYDOWN", "LEFT"), PygameEvent("KEYUP", "HOLD"),
     PygameEvent("KEYDOWN", "QUIT")}

\* the clock stands still, or a stall of one flush period or a frame more
\* has passed
EmitJumps == {0, EmitStall, EmitStall + 2}

\* the server announces the game
EmitStart == RecvData(GameStartMessage(0, 0, 42), 1)

\* the local session in which every event the client emits and every event
\* it sends is remembered
NextEmit ==
    \/ MainStepLogged(EmitEvents, EmitEvents, MaxEmitInputs, MaxEmitFrame, EmitJumps)
    \/ RecvStop
    \/ EmitStart

SpecEmit == Init /\ [][NextEmit]_vars

\* the receiver on a stream in which a header may announce more bytes than
\* the fields of its message take
NextFraming ==
    \/ RecvRead(ReadSizes)
    \/ ServerWriteOf(FramingFrames, FALSE, MaxStreamSends)

SpecFraming == Init /\ [][NextFraming]_vars

\* the main thread with the reading of the clock and every iteration of the
\* catch-up loop as steps of their own
MainStepTick(first, more, max_inputs, limit, jumps) ==
    \/ StartSession
    \/ CheckRunning
    \/ PollEvents(first, more, max_inputs)
    \/ SimulateLocal
    \/ DrainQueue
    \/ SimulateRemote
    \/ ClockRead(limit, jumps)
    \/ CatchUpStep
    \/ Join

\* the local frame counter followed frame by frame
NextTick ==
    \/ MainStepTick(QuitEvents, QuitEvents, MaxInputs, MaxFrame, LocalJumps)
    \/ RecvStop
    \/ EmitStart

SpecTick == Init /\ [][NextTick]_vars

\* the main thread with every acquire, access and release of the running
\* flag as a step of its own
MainStepLock(first, more, max_inputs, limit, jumps) ==
    \/ StartSession
    \/ MainLock
    \/ MainCheck
    \/ MainExit
    \/ PollGet(first, more, max_inputs)
    \/ HandleQuitLock
    \/ HandleQuitSet
    \/ HandleQuitExit
    \/ HandleKey
    \/ HandleDone
    \/ SimulateLocal
    \/ DrainQueue
    \/ SimulateRemote
    \/ CatchUp(limit, jumps)
    \/ Join

RecvStepLock(max_sends) ==
    \/ RecvLock
    \/ RecvCheck
    \/ RecvExit
    \/ RecvTimeout
    \/ RecvProtocol(max_sends)

\* both threads around the running flag
NextLock ==
    \/ MainStepLock(PlayedEvents, PlayedEvents, MaxLocalInputs, MaxFrame, CoarseJumps)
    \/ RecvStepLock(MaxServerSends)

SpecLock == Init /\ [][NextLock]_vars

\* fair scheduling: a thread that can take a step takes one in the end, and
\* select returns after its timeout
SpecLockFair ==
    /\ SpecLock
    /\ WF_vars(MainStepLock(PlayedEvents, PlayedEvents, MaxLocalInputs, MaxFrame,
                            CoarseJumps))
    /\ WF_vars(RecvLock)
    /\ WF_vars(RecvCheck)
    /\ WF_vars(RecvExit)
    /\ WF_vars(RecvTimeout)

\* the local session with a flood of input events
NextSend ==
    \/ MainStep(QuitEvents, QuitEvents, MaxFlood + MaxInputs, MaxFrame, CoarseJumps)
    \/ PollFlood
    \/ RecvStop
    \/ EmitStart

SpecSend == Init /\ [][NextSend]_vars

\* main.py:352 and the end of the with block: __exit__ is called on a
\* Tetrion object; the garbage collector, or any holder of the object,
\* calls __del__.  Object o gets the call named call.
LifeCall(o, call) ==
    /\ main_pc \in {"join", "done", "crashed"}
    /\ handles[o].ref # "unset"
    /\ Len(life_calls[o]) < MaxLifeCalls
    /\ handles' = [handles EXCEPT ![o] = IF call = "__exit__" THEN TetrionExit(@)
                                        ELSE TetrionDel(@)]
    /\ life_calls' = [life_calls EXCEPT ![o] = Append(@, call)]
    /\ UNCHANGED <<MODE, running, message_queue>>
    /\ UNCHANGED main_vars
    /\ UNCHANGED recv_vars
    /\ UNCHANGED server_vars
    /\ UNCHANGED queue_vars
    /\ UNCHANGED fine_vars
    /\ UNCHANGED log_vars

ExitCall == \E o \in Tetrions : LifeCall(o, "__exit__")

DelCall == \E o \in Tetrions : LifeCall(o, "__del__")

\* a session that ends, and the calls that end the two Tetrion objects
NextHandle ==
    \/ MainStep(QuitEvents, QuitEvents, MaxInputs, MaxFrame, StillClock)
    \/ EmitStart
    \/ RecvStop
    \/ ExitCall
    \/ DelCall

SpecHandle == Init /\ [][NextHandle]_vars

----------------------------------------------------------------------------
(* Properties                                                              *)

C2_Target ==
    /\ (main_pc = "clock" /\ simulation_step > 30 /\ other_client_frame # NoFrame)
          => /\ last_target = (IF simulation_step - 30 <= other_client_frame
                               THEN simulation_step - 30 ELSE other_client_frame)
             /\ other_tetrion.advanced
             /\ other_tetrion.frame >= last_target
    /\ (simulation_step = 100 /\ other_client_frame = NoFrame)
          => (~other_tetrion.advanced /\ other_tetrion.frame = 0 /\ last_target = NoFrame)
    /\ (main_pc = "clock" /\ simulation_step = 100 /\ other_client_frame = 50)
          => last_target = 50

\* the scenario: local frame 100, Broadcast of frame 50 consumed, target 50
C2_Witness ==
    /\ main_pc = "clock"
    /\ simulation_step = 100
    /\ other_client_frame = 50
    /\ last_target = 50
    /\ other_tetrion.frame = 50

\* C3 as stated (SpecAnyOrder): the target of the remote step never decreases
\* from one tick to a later one, whatever Broadcasts were consumed between.
C3_AnySequence == [][last_target' >= last_target]_vars

\* C3 amended (SpecAnyOrder): the target of the remote step does not decrease
\* from one tick to a later one as long as no consumed Broadcast carried a
\* smaller frame than the Broadcast consumed before it.
C3_FrontierMonotone == [][in_order' => last_target' >= last_target]_vars

\* the frontier has moved forward to the frame of a later Broadcast
C3_Witness ==
    /\ in_order
    /\ server_sends = MaxServerSends
    /\ other_client_frame = LateFrame
    /\ last_target = LateFrame
    /\ message_queue = <<>>
    /\ main_pc = "clock"

C5_NoLateLocalInput ==
    /\ ~tetrion.late
    /\ (main_pc = "poll" /\ tetrion.advanced) => tetrion.frame < simulation_step
    /\ \A i \in 1 .. Len(tetrion.queue) :
          tetrion.advanced => tetrion.queue[i].frame > tetrion.frame

\* an event was enqueued in a tick that follows a tick without catch-up: the
\* handle stands one frame below the tag
C5_Witness ==
    /\ main_pc = "sim_local"
    /\ tetrion.advanced
    /\ tetrion.frame = simulation_step - 1
    /\ Len(tetrion.queue) > 0
    /\ tetrion.queue[Len(tetrion.queue)].frame = simulation_step

\* C6 (SpecLocal): after the local step of a tick (main.py:441-442) the local
\* handle stands at simulation_step - 1 when simulation_step > 0 and is
\* untouched when simulation_step = 0; it never reaches simulation_step.
C6_LocalOneBehind ==
    /\ (main_pc \in {"drain", "sim_remote", "clock"} /\ simulation_step > 0)
          => (tetrion.advanced /\ tetrion.frame = simulation_step - 1)
    /\ simulation_step = 0 => ~tetrion.advanced
    /\ tetrion.advanced => tetrion.frame < simulation_step

\* the first local step: frame 1, handle advanced to frame 0
C6_Witness ==
    /\ main_pc = "drain"
    /\ simulation_step = 1
    /\ tetrion.advanced
    /\ tetrion.frame = 0

\* the events a list of pygame events stands for: the key a control is bound
\* to, pressed or released, tagged with the frame; nothing for the quit key,
\* the QUIT event and keys without a binding
C7_Bindings ==
    {<<"LEFT", "LEFT">>, <<"RIGHT", "RIGHT">>, <<"DOWN", "DOWN">>,
     <<"ROTATE_COUNTER_CLOCKWISE", "ROTATE_CCW">>, <<"ROTATE_CLOCKWISE", "ROTATE_CW">>,
     <<"DROP", "DROP">>, <<"HOLD", "HOLD">>}

RECURSIVE C7_Expected(_, _)
C7_Expected(events, step) ==
    IF events = <<>> THEN <<>>
    ELSE LET e == Head(events)
             bound == {b \in C7_Bindings : b[1] = e.key}
             type == IF e.type = "KEYDOWN" THEN "PRESSED" ELSE "RELEASED"
         IN  (IF e.type \in {"KEYDOWN", "KEYUP"} /\ bound # {}
              THEN <<Event((CHOOSE b \in bound : TRUE)[2], type, step)>>
              ELSE <<>>)
                 \o C7_Expected(Tail(events), step)

\* C7 (SpecKeys): in the polling step of a tick, every press or release of a
\* bound key appends the same event (key, type, frame = simulation_step) to the
\* local handle's queue and to the outbound buffer, in the order polled; the
\* quit key, the QUIT event and unbound keys append to neither.
C7_BothEffects ==
    [][(main_pc = "poll" /\ main_pc' = "sim_local") =>
          /\ tetrion'.queue = tetrion.queue \o C7_Expected(polled', simulation_step)
          /\ event_buffer' = event_buffer \o C7_Expected(polled', simulation_step)]_vars

\* a release of the hold key and the quit key were polled together: only the
\* release is in the handle and in the buffer
C7_Witness ==
    /\ main_pc = "sim_local"
    /\ polled = <<PygameEvent("KEYUP", "HOLD"), PygameEvent("KEYDOWN", "QUIT")>>
    /\ event_buffer = <<Event("HOLD", "RELEASED", simulation_step)>>
    /\ tetrion.queue = <<Event("HOLD", "RELEASED", simulation_step)>>
    /\ ~running

\* C8 (SpecLocal): the frames of the messages sent so far are exactly the
\* multiples of 15 below simulation_step, each once and in increasing order;
\* the messages of the last tick carry these frames, every one after the first
\* is sent with an empty buffer, and the buffer is empty after a tick that sent.
C8_FlushPolicy ==
    /\ Len(sent_frames) = (simulation_step + 14) \div 15
    /\ \A i \in 1 .. Len(sent_frames) : sent_frames[i] = 15 * (i - 1)
    /\ Len(socket_out) <= Len(sent_frames)
    /\ \A i \in 1 .. Len(socket_out) :
          /\ socket_out[i].frame = sent_frames[Len(sent_frames) - Len(socket_out) + i]
          /\ socket_out[i].data[11] = socket_out[i].frame
          /\ i > 1 => socket_out[i].events = <<>>
    /\ (main_pc = "check_running" /\ socket_out # <<>>) => event_buffer = <<>>

\* one tick has caught up over four flush frames; the first message took the
\* buffered events
C8_Witness ==
    /\ simulation_step = 49
    /\ sent_frames = <<0, 15, 30, 45>>
    /\ Len(socket_out) = 4
    /\ socket_out[1].events # <<>>
    /\ event_buffer = <<>>

\* C9 (SpecLocal): every message sent by send_event_buffer for n buffered
\* events is: tag 0, payload_size 9 + 10 n in two bytes, the frame in eight
\* bytes, n in one byte, then for each event in buffer order one byte key,
\* one byte type, eight bytes frame; 3 + payload_size bytes in all.
C9_WireFormat ==
    \A i \in 1 .. Len(socket_out) :
        LET d == socket_out[i].data
            events == socket_out[i].events
            n == Len(events)
        IN  /\ Len(d) = 3 + 9 + 10 * n
            /\ d[1] = 0
            /\ d[2] * 256 + d[3] = 9 + 10 * n
            /\ \A k \in 4 .. 10 : d[k] = 0
            /\ d[11] = socket_out[i].frame
            /\ d[12] = n
            /\ \A j \in 1 .. n :
                  LET at == 12 + 10 * (j - 1)
                  IN  /\ d[at + 1] = KeyValue(events[j].key)
                      /\ d[at + 2] = EventTypeValue(events[j].type)
                      /\ \A k \in 3 .. 9 : d[at + k] = 0
                      /\ d[at + 10] = events[j].frame

\* a message with two events (32 bytes) was sent
C9_Witness ==
    /\ Len(socket_out) >= 1
    /\ Len(socket_out[1].events) = 2
    /\ Len(socket_out[1].data) = 32
    /\ socket_out[1].events[1].key = "HOLD"
    /\ socket_out[1].events[2].type = "RELEASED"

\* the events of all per-client lists of a decoded Broadcast
RECURSIVE C10_AllEvents(_)
C10_AllEvents(per_client) ==
    IF per_client = <<>> THEN <<>>
    ELSE Head(per_client).events \o C10_AllEvents(Tail(per_client))

\* C10 as stated (SpecLoopback): when the bytes of an outbound message M are
\* fed to the receiver, it appends one message with the frame and the events
\* of M to the queue.
C10_RoundTrip ==
    [][(echo = <<>> /\ echo' # <<>>) =>
          /\ Len(message_queue') = Len(message_queue) + 1
          /\ message_queue'[Len(message_queue')].kind = "Broadcast"
          /\ message_queue'[Len(message_queue')].frame = echo'[1].frame
          /\ C10_AllEvents(message_queue'[Len(message_queue')].events_per_client)
                = echo'[1].events]_vars

\* C10 amended (SpecLoopback): when the bytes of an outbound message M with n
\* events are fed to the receiver, it reads the header as (HEARTBEAT, 9 + 10 n),
\* finds no decoder for that type, appends nothing to the queue and raises;
\* the payload stays undecoded in its buffer.
C10_EchoRejected ==
    [][(echo = <<>> /\ echo' # <<>>) =>
          /\ message_queue' = message_queue
          /\ recv_pc' = "crashed"
          /\ current_header' = MessageHeader("HEARTBEAT", 9 + 10 * Len(echo'[1].events))
          /\ Len(buffer') = 9 + 10 * Len(echo'[1].events)]_vars

\* a message with two events was fed back and the receiver has raised
C10_Witness ==
    /\ echo # <<>>
    /\ Len(echo[1].events) = 2
    /\ recv_pc = "crashed"
    /\ message_queue = <<>>

\* the type a frame's header announces
C11_TypeOf(frame) == IF frame.kind = "GameStart" THEN "GAME_START" ELSE "EVENT_BROADCAST"

\* no frame written so far, up to the one being received, has a tag the
\* receiver does not decode
C11_WellFormed ==
    \A i \in 1 .. Min(Len(appended) + 1, Len(written)) : written[i].kind # "Other"

\* C11 (SpecStream): for well-formed GameStart and Broadcast frames, however
\* the bytes of a frame are split over reads, the receiver appends for each
\* frame exactly the message it appends when the frame arrives in one read,
\* and only when the last byte of the frame has been read; while a frame is
\* incomplete nothing is appended for it, its header is either still
\* unparsed (fewer than 3 bytes buffered) or parsed and remembered, and the
\* bytes buffered and on the wire are exactly the rest of the frame.
C11_Resumable ==
    (C11_WellFormed /\ recv_pc = "loop") =>
        /\ Len(appended) <= Len(written)
        /\ Len(written) <= Len(appended) + 1
        /\ \A i \in 1 .. Len(appended) :
              <<appended[i]>> = Receive(<<>>, NoHeader, EncodeFrame(written[i])).messages
        /\ Len(appended) = Len(written) => AtFrameBoundary
        /\ Len(appended) < Len(written) =>
              LET bytes == EncodeFrame(written[Len(written)])
              IN  /\ wire # <<>>
                  /\ current_header = NoHeader =>
                        /\ Len(buffer) < HEADER_SIZE
                        /\ buffer \o wire = bytes
                  /\ current_header # NoHeader =>
                        /\ current_header = MessageHeader(C11_TypeOf(written[Len(written)]),
                                                          Len(bytes) - 3)
                        /\ buffer \o wire = Drop(bytes, 3)

\* a Broadcast of 26 bytes was the only frame written, it arrived in two
\* reads and was appended
C11_Witness ==
    /\ Len(written) = 1
    /\ written[1].kind = "Broadcast"
    /\ Len(EncodeFrame(written[1])) = 26
    /\ splits = 1
    /\ wire = <<>>
    /\ appended = written

\* C13 (SpecStream): a GameStart frame is 20 bytes: tag 2, payload size 17 in
\* two bytes, client_id in one byte, start_frame and random_seed in eight
\* bytes each, most significant byte first. The header the receiver keeps
\* for it says 17 payload bytes; the step that appends the message appends a
\* GameStartMessage with these three values and takes exactly the 20 bytes
\* of the frame from the stream, leaving nothing of it in the buffer.
C13_GameStartDecoded ==
    [][/\ (current_header = NoHeader /\ current_header' # NoHeader
              /\ current_header'[1].type_ = "GAME_START")
          => current_header'[1].payload_size = 17
       /\ (Len(appended') = Len(appended) + 1
              /\ appended'[Len(appended')].kind = "GameStart")
          => LET m == appended'[Len(appended')]
                 b == EncodeFrame(written[Len(appended')])
                 before == (IF current_header # NoHeader THEN 3 ELSE 0)
                               + Len(buffer) + Len(wire)
                 after == (IF current_header' # NoHeader THEN 3 ELSE 0)
                               + Len(buffer') + Len(wire')
             IN  /\ Len(b) = 20
                 /\ b[1] = 2 /\ b[2] = 0 /\ b[3] = 17
                 /\ m.client_id = b[4]
                 /\ \A k \in 5 .. 10 : b[k] = 0
                 /\ m.start_frame = b[11] * 256 + b[12]
                 /\ \A k \in 13 .. 18 : b[k] = 0
                 /\ m.random_seed = b[19] * 256 + b[20]
                 /\ m = written[Len(appended')]
                 /\ after = before - 20
                 /\ buffer' = <<>>
                 /\ current_header' = NoHeader]_vars

\* the GameStart for client 1, start frame 3, seed 258 arrived in two reads
\* and was appended
C13_Witness ==
    /\ written = <<GameStartMessage(1, 3, 258)>>
    /\ splits = 1
    /\ appended = <<GameStartMessage(1, 3, 258)>>
    /\ buffer = <<>>
    /\ wire = <<>>

\* C12 as stated (SpecBurst): when the receiver is between two frames and
\* one read returns the bytes of two complete messages back to back, that
\* read appends both messages to the queue, in the order written.
C12_BothDecoded ==
    [][(/\ current_header = NoHeader
        /\ buffer = <<>>
        /\ Len(written) >= 2
        /\ written[Len(written) - 1].kind # "Other"
        /\ written[Len(written)].kind # "Other"
        /\ wire = EncodeFrame(written[Len(written) - 1]) \o EncodeFrame(written[Len(written)])
        /\ wire' = <<>>)
       => /\ appended' = appended \o <<written[Len(written) - 1], written[Len(written)]>>
          /\ message_queue' = message_queue
                \o <<written[Len(written) - 1], written[Len(written)]>>]_vars

\* C14 (SpecBurst): in every state of every interleaving of the two threads,
\* the messages the main thread has popped, followed by the messages in the
\* queue, are the messages the receiver has appended, in the order appended:
\* nothing is lost, duplicated or reordered. The receiver may append between
\* the main thread's length test and its pop.
C14_QueueInOrder ==
    /\ appended = consumed \o message_queue
    /\ main_pc \in {"start_pop", "drain_pop"} => Len(message_queue) > 0

\* the main thread has popped the GameStart and stands between the length
\* test and the pop of the draining loop, the receiver has appended two
\* different Broadcasts meanwhile
C14_Witness ==
    /\ main_pc = "drain_pop"
    /\ Len(consumed) = 1
    /\ consumed[1].kind = "GameStart"
    /\ Len(message_queue) = 2
    /\ message_queue[1].frame = LateFrame
    /\ message_queue[2].frame = EarlyFrame

\* C15 as stated (SpecPeer): whenever a fatal condition has occurred (the
\* receiver has ended on a reset or aborted connection, a thread has ended
\* with an exception: a message type that is not decoded, a failed assertion
\* of the main loop), the running flag is false.
C15_FatalClearsRunning ==
    /\ (recv_pc = "done" /\ peer \in {"reset", "aborted"}) => ~running
    /\ recv_pc = "crashed" => ~running
    /\ main_pc = "crashed" => ~running

\* C16 as stated (SpecPeer): after a read that returned zero bytes the
\* receiver is not in its loop any more, so there is at most one such read;
\* after a reset or an abort the receiver ends without reading.
C16_EndsOnEof ==
    /\ eof_reads >= 1 => recv_pc # "loop"
    /\ eof_reads <= 1

\* the number of bytes of the frame written i-th that recv() has returned
C17_BytesRead(i) ==
    IF i < Len(written) THEN Len(EncodeFrame(written[i]))
    ELSE Len(EncodeFrame(written[i])) - Len(wire)

\* the first frame with a type tag other than 2 and 3, or 0 if there is none
C17_FirstOther ==
    IF \E i \in 1 .. Len(written) : written[i].kind = "Other"
    THEN CHOOSE i \in 1 .. Len(written) :
            /\ written[i].kind = "Other"
            /\ \A j \in 1 .. i - 1 : written[j].kind # "Other"
    ELSE 0

\* the header of that frame has been read
C17_HeaderRead == C17_FirstOther > 0 /\ C17_BytesRead(C17_FirstOther) >= HEADER_SIZE

\* nothing is appended for a frame with such a tag nor for any frame after
\* it; a tag outside the enum ends the receiver with the read that completes
\* the header, tags 0 and 1 end it with the read that completes the payload
C17_NothingAfterOther ==
    C17_FirstOther > 0 =>
        /\ Len(appended) < C17_FirstOther
        /\ C17_FirstOther < Len(written) => recv_pc = "crashed"
        /\ (C17_HeaderRead /\ written[C17_FirstOther].tag \notin {0, 1})
              => recv_pc = "crashed"
        /\ (C17_HeaderRead /\ recv_pc = "loop") =>
              /\ written[C17_FirstOther].tag \in {0, 1}
              /\ current_header # NoHeader
              /\ current_header[1].type_ \in {"HEARTBEAT", "GRID_STATE"}
              /\ Len(buffer) < current_header[1].payload_size
              /\ wire # <<>>

\* C17 (SpecStreamFair): once the receiver has read a header whose type tag
\* is neither 2 nor 3, no message is appended for that frame or for any
\* frame after it, and the receiver ends: at once for a tag outside the enum,
\* and for tags 0 and 1 with the read that brings the last byte of the
\* payload the header announces.
C17_UnknownTagStops ==
    /\ []C17_NothingAfterOther
    /\ C17_HeaderRead ~> recv_pc # "loop"

\* a frame with tag 0 came first, the receiver has ended, the GameStart
\* written after it stays unread
C17_Witness ==
    /\ Len(written) = 2
    /\ written[1] = OtherFrame(0, <<7, 7>>)
    /\ written[2].kind = "GameStart"
    /\ recv_pc = "crashed"
    /\ appended = <<>>
    /\ wire = EncodeFrame(written[2])

\* C19 (SpecStream): an iteration of the receiver in which select times out
\* or recv raises BlockingIOError leaves the receive buffer, the current
\* header and the message queue as they were, and the receiver stays in its
\* loop.
C19_IdleChangesNothing ==
    [][idle' = idle + 1 =>
          /\ buffer' = buffer
          /\ current_header' = current_header
          /\ message_queue' = message_queue
          /\ appended' = appended
          /\ wire' = wire
          /\ recv_pc = "loop"
          /\ recv_pc' = "loop"]_vars

\* the receiver has gone through an iteration without data while it holds a
\* parsed header and a part of the payload
C19_Witness ==
    /\ idle = 1
    /\ recv_pc = "loop"
    /\ current_header # NoHeader
    /\ buffer # <<>>
    /\ wire # <<>>

\* C18 (Spec): when the main loop pops a Broadcast whose per-client list is
\* empty, the assertion fails before other_client_frame is assigned and
\* before the remote simulation is advanced: the loop ends there, and neither
\* other_client_frame nor the remote simulation changes in that step or in
\* any later one.
C18_EmptyBroadcast ==
    /\ main_pc = "drain"
    /\ Len(message_queue) > 0
    /\ Head(message_queue).kind = "Broadcast"
    /\ Len(Head(message_queue).events_per_client) = 0

C18_AssertBeforeUpdate ==
    [][/\ (C18_EmptyBroadcast /\ message_queue' = Tail(message_queue)) =>
              /\ main_pc' = "crashed"
              /\ other_client_frame' = other_client_frame
              /\ other_tetrion' = other_tetrion
              /\ last_target' = last_target
       /\ main_pc = "crashed" =>
              /\ main_pc' = "crashed"
              /\ other_client_frame' = other_client_frame
              /\ other_tetrion' = other_tetrion
              /\ last_target' = last_target]_vars

\* the loop has stopped on an empty Broadcast of frame LateFrame that came
\* after a Broadcast of frame EarlyFrame: other_client_frame is still
\* EarlyFrame
C18_Witness ==
    /\ main_pc = "crashed"
    /\ client_id # NoFrame
    /\ other_client_frame = EarlyFrame
    /\ server_frame = LateFrame
    /\ message_queue = <<>>
    /\ recv_pc = "loop"

\* C20 (SpecKeys): the running flag is true when the session starts; no step
\* of either thread takes it from false to true, and a pass over the polled
\* events that meets a quit request ends with the flag false whatever events
\* follow the request in the same list.
C20_IsQuit(event) ==
    \/ event.type = "QUIT"
    \/ event.type = "KEYDOWN" /\ event.key = "QUIT"

C20_NeverReset ==
    /\ running = TRUE
    /\ [][/\ running' => running
          /\ (/\ main_pc = "poll"
              /\ main_pc' = "sim_local"
              /\ \E i \in 1 .. Len(polled') : C20_IsQuit(polled'[i])) => ~running']_vars

\* a quit request followed, in the same list, by a key the game maps: the
\* key has been handled and the flag is false
C20_Witness ==
    /\ ~running
    /\ main_pc = "sim_local"
    /\ polled = <<PygameEvent("KEYDOWN", "QUIT"), PygameEvent("KEYUP", "HOLD")>>
    /\ Len(event_buffer) > 0

\* C23 (SpecBurst): no simulation handle exists before the main thread has
\* consumed its first message; when that message is a GameStart, the local
\* and the remote handle both carry the seed of its random_seed field.
C23_SameSeed ==
    /\ consumed = <<>> =>
          /\ tetrion = NoTetrion
          /\ other_tetrion = NoTetrion
    /\ (consumed # <<>> /\ consumed[1].kind = "GameStart") =>
          /\ seed = consumed[1].random_seed
          /\ tetrion.seed = consumed[1].random_seed
          /\ other_tetrion.seed = consumed[1].random_seed
    /\ (consumed # <<>> /\ consumed[1].kind # "GameStart") =>
          /\ tetrion = NoTetrion
          /\ other_tetrion = NoTetrion

\* the session runs on the handles of the second GameStart of the server's
\* repertoire, and a Broadcast has been consumed after it
C23_Witness ==
    /\ Len(consumed) >= 2
    /\ consumed[1] = GameStartMessage(1, 3, 258)
    /\ tetrion.seed = 258
    /\ other_tetrion.seed = 258
    /\ main_pc \notin {"crashed", "wait_start", "start_pop"}

\* C24 (SpecEmit): the events this client emits carry non-decreasing frame
\* tags; the events of the outbound messages, read in send order and
\* followed by the events still in the outbound buffer, are the emitted
\* events in the order of their emission, and the events waiting in the
\* local handle are the last of the emitted events in that order.
C24_Ordered(events) ==
    \A i \in 1 .. Len(events) : \A j \in i .. Len(events) :
        events[i].frame <= events[j].frame

RECURSIVE C24_Flat(_)
C24_Flat(lists) ==
    IF lists = <<>> THEN <<>> ELSE Head(lists) \o C24_Flat(Tail(lists))

C24_EmissionOrder ==
    /\ C24_Ordered(emitted)
    /\ C24_Flat(sent_events) \o event_buffer = emitted
    /\ Len(tetrion.queue) <= Len(emitted)
    /\ tetrion.queue = SubSeq(emitted, Len(emitted) - Len(tetrion.queue) + 1, Len(emitted))

\* a message with two different events of one frame has been sent, after an
\* event of an earlier frame
C24_Witness ==
    /\ Len(emitted) = 3
    /\ emitted[1].frame < emitted[2].frame
    /\ emitted[2].frame = emitted[3].frame
    /\ emitted[2] # emitted[3]
    /\ event_buffer = <<>>
    /\ Len(sent_events) >= 2

\* the least multiple of the flush period that is not smaller than f
C27_FlushFrame(f) == ((f + FLUSH_PERIOD - 1) \div FLUSH_PERIOD) * FLUSH_PERIOD

\* every event of an outbound message is tagged with a frame whose flush
\* frame is the frame of the message; every emitted event is in one outbound
\* message or still in the buffer, never in both and never twice; the flush
\* frame of a sent event has been passed, the one of a waiting event has not
C27_InFlushMessage ==
    /\ Len(sent_events) = Len(sent_frames)
    /\ \A i \in 1 .. Len(sent_events) :
          /\ sent_frames[i] < simulation_step
          /\ \A k \in 1 .. Len(sent_events[i]) :
                /\ C27_FlushFrame(sent_events[i][k].frame) = sent_frames[i]
                /\ sent_events[i][k].frame > sent_frames[i] - FLUSH_PERIOD
                /\ sent_events[i][k].frame <= sent_frames[i]
    /\ C24_Flat(sent_events) \o event_buffer = emitted
    /\ \A k \in 1 .. Len(event_buffer) :
          C27_FlushFrame(event_buffer[k].frame) >= simulation_step

\* C27 as stated (SpecEmit): every local input event is transmitted exactly
\* once, in the outbound message of its flush frame; when the session has
\* ended no emitted event is left unsent.
C27_AllTransmitted ==
    /\ C27_InFlushMessage
    /\ main_pc \in {"join", "done"} => C24_Flat(sent_events) = emitted

\* C27 (SpecEmit): a local input event tagged f is transmitted at most once,
\* and only in the outbound message whose frame is the least multiple of 15
\* not smaller than f, which is sent when simulation_step passes that frame;
\* until then the event waits in the outbound buffer. A message of frame F
\* holds only events tagged in (F-15, F], and no event created after that
\* message was sent is tagged F or earlier.
C27_Transmission ==
    /\ []C27_InFlushMessage
    /\ [][\A k \in Len(emitted) + 1 .. Len(emitted') :
             \A i \in 1 .. Len(sent_frames) :
                 emitted'[k].frame > sent_frames[i]]_vars

\* the message of frame 15 has carried an event tagged 15, the message of
\* frame 0 an event tagged 0, and an event tagged later waits in the buffer
C27_Witness ==
    /\ Len(sent_frames) >= 2
    /\ sent_frames[1] = 0
    /\ sent_frames[2] = FLUSH_PERIOD
    /\ Len(sent_events[1]) > 0
    /\ sent_events[1][1].frame = 0
    /\ Len(sent_events[2]) > 0
    /\ sent_events[2][1].frame = FLUSH_PERIOD
    /\ Len(event_buffer) > 0

\* C26 (Spec): while the main thread waits for its first message it has
\* created no handle, sent nothing and advanced nothing. The first message
\* it takes from the queue starts the session when it is a GameStart and
\* fails an assertion otherwise; every message it takes later fails an
\* assertion unless it is a Broadcast; the handles are created by the first
\* take and by no other step.
C26_NothingBeforeStart ==
    main_pc = "wait_start" =>
        /\ tetrion = NoTetrion
        /\ other_tetrion = NoTetrion
        /\ client_id = NoFrame
        /\ seed = NoFrame
        /\ simulation_step = 0
        /\ elapsed = 0
        /\ sent_frames = <<>>
        /\ socket_out = <<>>
        /\ event_buffer = <<>>
        /\ other_client_frame = NoFrame
        /\ last_target = NoFrame

C26_Takes == Len(message_queue') < Len(message_queue)

C26_StartProtocol ==
    /\ []C26_NothingBeforeStart
    /\ [][/\ C26_Takes =>
                /\ main_pc \in {"wait_start", "drain"}
                /\ message_queue' = Tail(message_queue)
          /\ (C26_Takes /\ main_pc = "wait_start") =>
                IF Head(message_queue).kind = "GameStart"
                THEN /\ main_pc' = "check_running"
                     /\ tetrion' = CreateTetrion(Head(message_queue).random_seed)
                     /\ other_tetrion' = CreateTetrion(Head(message_queue).random_seed)
                ELSE /\ main_pc' = "crashed"
                     /\ tetrion' = NoTetrion
                     /\ other_tetrion' = NoTetrion
          /\ (C26_Takes /\ main_pc = "drain" /\ Head(message_queue).kind # "Broadcast") =>
                main_pc' = "crashed"
          /\ (main_pc = "wait_start" /\ main_pc' # main_pc) => C26_Takes
          /\ (tetrion = NoTetrion /\ tetrion' # NoTetrion) => main_pc = "wait_start"]_vars

\* the session has started with a GameStart and has ended at a second
\* GameStart taken from the queue where a Broadcast was due
C26_Witness ==
    /\ main_pc = "crashed"
    /\ client_id # NoFrame
    /\ tetrion # NoTetrion
    /\ server_sends = 2
    /\ server_frame = NoFrame
    /\ message_queue = <<>>

\* the number of bytes of the frames
RECURSIVE C28_Length(_)
C28_Length(frames) ==
    IF frames = <<>> THEN 0
    ELSE Len(EncodeFrame(Head(frames))) + C28_Length(Tail(frames))

\* the bytes the receiver has taken out of its buffer so far
C28_Removed == C28_Length(written) - Len(wire) - Len(buffer)

\* C28 (SpecFraming): whenever the receiver awaits a header, the bytes it has
\* removed from its buffer are the bytes of whole frames, 3 + payload_size
\* for each, so that the buffer starts at the first byte of a frame; also
\* when a header announces more bytes than the fields of its message take.
C28_FrameBoundary ==
    (recv_pc = "loop" /\ current_header = NoHeader) =>
        \E k \in 0 .. Len(written) : C28_Removed = C28_Length(SubSeq(written, 1, k))

\* the events of the entries of other clients than own, in the order of the
\* entries
RECURSIVE C29_OtherEvents(_, _)
C29_OtherEvents(per_client, own) ==
    IF per_client = <<>> THEN <<>>
    ELSE (IF Head(per_client).client_id # own THEN Head(per_client).events ELSE <<>>)
             \o C29_OtherEvents(Tail(per_client), own)

\* C29 (Spec): in two-player mode, when the main loop has taken a Broadcast
\* and gone through it, the events enqueued into the remote handle are the
\* events of the entry whose client_id is not this client's own, wherever
\* that entry stands in the message.
C29_OtherClientOnly ==
    [][(/\ MODE = "TWO_PLAYERS"
        /\ main_pc = "drain"
        /\ main_pc' = "drain"
        /\ Len(message_queue) > 0
        /\ message_queue' = Tail(message_queue)
        /\ Head(message_queue).kind = "Broadcast")
       => other_tetrion' = EnqueueAll(other_tetrion,
                C29_OtherEvents(Head(message_queue).events_per_client, client_id))]_vars

\* C30 (Spec): in one-player mode no event of a Broadcast is enqueued into
\* the remote handle: taking a Broadcast leaves the handle as it is and sets
\* other_client_frame to the frame of the message, and the remote step
\* advances the handle to min(simulation_step - 30, other_client_frame).
C30_OnePlayer ==
    /\ [](MODE = "ONE_PLAYER" => other_tetrion.queue = <<>>)
    /\ [][MODE = "ONE_PLAYER" =>
             /\ (/\ main_pc = "drain"
                 /\ Len(message_queue) > 0
                 /\ message_queue' = Tail(message_queue)
                 /\ Head(message_queue).kind = "Broadcast"
                 /\ Len(Head(message_queue).events_per_client) >= 1)
                => /\ other_tetrion' = other_tetrion
                   /\ other_client_frame' = Head(message_queue).frame
                   /\ main_pc' = "drain"
             /\ (/\ main_pc = "sim_remote"
                 /\ main_pc' # "sim_remote"
                 /\ simulation_step > FIXED_DELAY
                 /\ other_client_frame # NoFrame)
                => /\ other_tetrion' = SimulateUpUntil(other_tetrion,
                          Min(simulation_step - FIXED_DELAY, other_client_frame))
                   /\ last_target' = Min(simulation_step - FIXED_DELAY, other_client_frame)]_vars

\* one-player mode: a Broadcast of frame LateFrame with events in it has been
\* taken and the remote handle stands at that frame, with no event in it
C30_Witness ==
    /\ MODE = "ONE_PLAYER"
    /\ main_pc \notin {"crashed", "wait_start"}
    /\ other_client_frame = LateFrame
    /\ other_tetrion.advanced
    /\ other_tetrion.frame = LateFrame
    /\ other_tetrion.queue = <<>>
    /\ last_target = LateFrame

\* C25 as stated (SpecTick): once the clock has been read, simulation_step
\* is smaller than the frame derived from the reading.
C25_BelowClock ==
    /\ simulation_step >= 0
    /\ main_pc = "catch_up" => simulation_step < new_frame

\* C25 (SpecTick): simulation_step starts at 0 and changes only by +1; when
\* the catch-up loop of a tick ends it equals max(value at the reading of the
\* clock, new_frame - 1); it is smaller than new_frame whenever new_frame is
\* at least 1, and it is 0, as new_frame is, until the clock reads frame 1.
C25_StepByOne ==
    /\ simulation_step = 0
    /\ [](simulation_step <= Max(0, new_frame - 1))
    /\ [][/\ simulation_step' \in {simulation_step, simulation_step + 1}
          /\ simulation_step' # simulation_step => main_pc = "catch_up"
          /\ (main_pc = "catch_up" /\ main_pc' = "check_running") =>
                simulation_step' = Max(tick_start, new_frame - 1)]_vars

\* a tick has caught up over more than one frame
C25_Witness ==
    /\ main_pc = "check_running"
    /\ tick_start > 0
    /\ simulation_step > tick_start + 1
    /\ simulation_step = new_frame - 1

\* the main thread, and the receiver, is inside a with block of the flag
C21_MainInside ==
    main_pc \in {"check_locked", "check_pass", "check_break", "quit_locked", "quit_exit"}

C21_RecvInside == recv_pc \in {"loop_locked", "loop_pass", "loop_break"}

\* C21 (SpecLock): the two threads are never inside a guarded block of the
\* running flag at the same time; the lock is held exactly while a thread is
\* inside such a block, so it is free after every exit, the break included;
\* the flag is read and written only by a thread inside its block; and the
\* two threads never wait for the lock both at once.
C21_LockDiscipline ==
    /\ [](~(C21_MainInside /\ C21_RecvInside))
    /\ [](locked <=> (C21_MainInside \/ C21_RecvInside))
    /\ [](~(/\ locked
            /\ recv_pc = "loop"
            /\ \/ main_pc = "check_running"
               \/ main_pc = "handle" /\ handled < Len(polled)
                      /\ QuitRequest(polled[handled + 1])))
    /\ [][/\ running' # running => (main_pc = "quit_locked" /\ locked)
          /\ (main_pc' \in {"check_pass", "check_break"} /\ main_pc' # main_pc) =>
                /\ main_pc = "check_locked"
                /\ locked
                /\ main_pc' = IF running THEN "check_pass" ELSE "check_break"
          /\ (recv_pc' \in {"loop_pass", "loop_break"} /\ recv_pc' # recv_pc) =>
                /\ recv_pc = "loop_locked"
                /\ locked
                /\ recv_pc' = IF running THEN "loop_pass" ELSE "loop_break"
          /\ (main_pc = "check_break" /\ main_pc' # main_pc) => ~locked'
          /\ (recv_pc = "loop_break" /\ recv_pc' # recv_pc) => ~locked']_vars

\* the main thread holds the lock to clear the flag while the receiver waits
\* for the lock at the top of its loop
C21_Witness ==
    /\ locked
    /\ main_pc = "quit_locked"
    /\ recv_pc = "loop"
    /\ running

\* C22 (SpecLockFair): once the flag is false, the main thread leaves its
\* loop at its next check and the receiver at its next check, after at most
\* one more return of select; under fair scheduling both threads end and the
\* join of the main thread returns.
C22_Shutdown ==
    /\ [](late_polls <= 1)
    /\ [][/\ (main_pc = "check_locked" /\ ~running /\ main_pc' # main_pc) =>
                main_pc' = "check_break"
          /\ (main_pc = "check_break" /\ main_pc' # main_pc) => main_pc' = "join"
          /\ (recv_pc = "loop_locked" /\ ~running /\ recv_pc' # recv_pc) =>
                recv_pc' = "loop_break"
          /\ (recv_pc = "loop_break" /\ recv_pc' # recv_pc) => recv_pc' = "done"]_vars
    /\ (running = FALSE) ~> (recv_pc = "done")
    /\ (running = FALSE) ~> (main_pc = "done")

\* the flag was cleared while the receiver was in select; select has
\* returned once since, the receiver has ended and the join has returned
C22_Witness ==
    /\ ~running
    /\ late_polls = 1
    /\ recv_pc = "done"
    /\ main_pc = "done"

\* C31 as stated (SpecPeerFair): when the receiver thread has ended, by a
\* reset or an abort of the connection or by an error in decoding, the main
\* thread stops in the end: it leaves the wait for its first message and it
\* leaves its loop.
C31_MainStops ==
    (recv_pc \in {"done", "crashed"}) ~> (main_pc \in {"join", "done", "crashed"})

\* a flush is due in the catch-up loop that starts at frame step and runs up
\* to the frame before frame - 1
C32_FlushAhead(step, frame) ==
    \E f \in step .. frame - 2 : f % FLUSH_PERIOD = 0

\* C32 (SpecSend): every message send_event_buffer has put on the wire
\* carries in its event_count byte the number of its events and in its
\* payload_size field the number of its payload bytes; when a flush finds
\* more than 255 events in the buffer, nothing is sent: the call raises, the
\* main thread ends, and the buffer is left as it was.
C32_CountsOrNothing ==
    /\ [](\A i \in 1 .. Len(socket_out) :
             LET d == socket_out[i].data
                 n == Len(socket_out[i].events)
             IN  /\ n <= 255
                 /\ Len(d) = 12 + 10 * n
                 /\ d[12] = n
                 /\ d[2] * 256 + d[3] = Len(d) - HEADER_SIZE)
    /\ [][(/\ main_pc = "clock"
           /\ main_pc' # "clock"
           /\ Len(event_buffer) > 255
           /\ C32_FlushAhead(simulation_step, new_frame'))
          => /\ main_pc' = "crashed"
             /\ socket_out' = <<>>
             /\ sent_frames' = sent_frames
             /\ event_buffer' = event_buffer]_vars

\* a flush has found 256 events in the buffer and nothing was sent
C32_Witness ==
    /\ main_pc = "crashed"
    /\ Len(event_buffer) = 256
    /\ socket_out = <<>>
    /\ simulation_step % FLUSH_PERIOD = 0

\* C33 (SpecHandle): over every sequence of __exit__ and __del__ calls on a
\* Tetrion object the native handle is destroyed exactly once: before the
\* first call it is alive and referenced, after the first call it has been
\* destroyed once and the reference is None, and a later call changes
\* nothing.
C33_DestroyedOnce ==
    /\ [](\A o \in Tetrions :
             /\ handles[o].destroyed <= 1
             /\ (handles[o].ref # "unset" /\ life_calls[o] = <<>>)
                    => handles[o] = [ref |-> "handle", destroyed |-> 0]
             /\ life_calls[o] # <<>>
                    => handles[o] = [ref |-> "None", destroyed |-> 1])
    /\ [][\A o \in Tetrions :
             (life_calls[o] # <<>> /\ life_calls'[o] # life_calls[o])
                 => handles'[o] = handles[o]]_vars

\* both objects have had __exit__ and then __del__ twice
C33_Witness ==
    \A o \in Tetrions :
        /\ life_calls[o] = <<"__exit__", "__del__", "__del__">>
        /\ handles[o].destroyed = 1

====
